---------------------------- MODULE Spec2Model ----------------------------
(***************************************************************************)
(* A model of the error-accumulation, load and class-registry code of      *)
(* marshmallow as found under src/src/marshmallow.                         *)
(*                                                                         *)
(* Python values are encoded as one-field records whose field name is the  *)
(* Python type, so that values of different types are always comparable:   *)
(*   "m"            [str  |-> "m"]                                           *)
(*   [e1, e2]       [list |-> <<e1, e2>>]                                    *)
(*   {"k": e}       [dict |-> [k \in {[str |-> "k"]} |-> e]]                 *)
(*   1              [int  |-> 1]                                             *)
(*   None           [none |-> TRUE]                                          *)
(*   missing        [missing |-> TRUE]                                       *)
(***************************************************************************)
EXTENDS Integers, Sequences, FiniteSets, TLC

VARIABLES
    \* merge_errors applied to drawn inputs
    errors1, errors2, errors3, merged, assocL, assocR, mpc,
    \* one call of a function or constructor on drawn arguments: the
    \* arguments, what the call gave, and whether it has been made
    pin, pout, ppc,
    \* one ErrorStore: its errors dict, the last operation on it, what the
    \* operation returned and raised, and the errors dict before it
    store, sop, sret, sexc, sbefore, nops,
    \* one Schema instance and one call of load on it: the instance, the
    \* call's entry point and arguments, what it returned and raised, and
    \* the error tree it produced
    schema, lop, ldata, lmany, lpartial, lunknown, lret, lexc, lerrors,
    \* calls of load and dump on that one instance from several execution
    \* contexts: each context's position, its call, and what the call gave
    cpc, ccall, cres,
    \* one Nested field: the field, how often each execution context has read
    \* its schema property, and what each read last returned
    nfield, nacc, nret,
    \* one load pass on a schema class with decorated hook methods: the
    \* methods decorated, the class's _hooks, and the hooks and fields the
    \* pass has invoked, in order
    hdecl, hooks, htrace,
    \* one call of utils.get_value: its arguments, what it returned and raised
    gvobj, gvkey, gvdefault, gvret, gvexc, gvpc,
    \* class_registry: the module's _registry dict, the classes registered so
    \* far, the get_class call made on this registry last (none: gname = ""),
    \* what it returned and raised; the last class declaration (None: none
    \* yet) and the registry before it
    registry, registered, nregs, gname, gall, gret, gexc, declared, regbefore,
    \* register called from several execution contexts: each context's
    \* position in register and the class it registers, and what a context
    \* looking up one class's two entries at one instant saw
    rpc, rarg, observed

mergeVars == <<errors1, errors2, errors3, merged, assocL, assocR, mpc, pin, pout, ppc>>
pureVars == <<pin, pout, ppc>>
storeVars == <<store, sop, sret, sexc, sbefore, nops>>

loadVars ==
    <<schema, lop, ldata, lmany, lpartial, lunknown, lret, lexc, lerrors,
      cpc, ccall, cres, nfield, nacc, nret, hdecl, hooks, htrace,
      gvobj, gvkey, gvdefault, gvret, gvexc, gvpc>>

auxVars ==
    <<nfield, nacc, nret, hdecl, hooks, htrace,
      gvobj, gvkey, gvdefault, gvret, gvexc, gvpc>>

regVars ==
    <<registry, registered, nregs, gname, gall, gret, gexc, declared, regbefore,
      rpc, rarg, observed>>

vars == <<mergeVars, storeVars, loadVars, regVars>>

---------------------------------------------------------------------------
(* Python values *)

Str(s) == [str |-> s]
List(l) == [list |-> l]
Dict(d) == [dict |-> d]
None == [none |-> TRUE]
missing == [missing |-> TRUE]

PyInt(i) == [int |-> i]
PyBool(b) == [bool |-> b]

IsStr(e) == DOMAIN e = {"str"}
IsList(e) == DOMAIN e = {"list"}
IsDict(e) == DOMAIN e = {"dict"}

EmptyDict == Dict([k \in {} |-> None])
EmptyList == List(<<>>)

\* what a call leaves as its value when an exception escapes it
NoReturn == [noreturn |-> TRUE]

\* a set of hashable values, and set(x) of a list or tuple x
PySet(S) == [set |-> S]
set(x) == PySet({x.list[i] : i \in DOMAIN x.list})
\* a or b, of two sets: a when it is not empty
Or(a, b) == IF a.set # {} THEN a ELSE b

\* lists and dicts are unhashable: they cannot be dict keys
IsHashable(e) == ~IsList(e) /\ ~IsDict(e)

---------------------------------------------------------------------------
(* error_store.merge_errors *)

\* merge_errors with "merged[key] = value" for every key of errors2
merge_errors_overwrite(e1, e2) ==
    IF IsDict(e1) /\ IsDict(e2) THEN
        Dict([key \in (DOMAIN e1.dict) \cup (DOMAIN e2.dict) |->
                IF key \in DOMAIN e2.dict THEN e2.dict[key] ELSE e1.dict[key]])
    ELSE IF IsList(e1) /\ IsList(e2) THEN
        List(e1.list \o e2.list)
    ELSE IF IsStr(e1) /\ IsStr(e2) THEN
        List(<<e1, e2>>)
    ELSE
        e2

RECURSIVE merge_errors(_, _)
merge_errors(e1, e2) ==
    IF IsDict(e1) /\ IsDict(e2) THEN
        \* merged = errors1.copy(); for key, value in errors2.items(): ...
        Dict([key \in (DOMAIN e1.dict) \cup (DOMAIN e2.dict) |->
                IF key \in DOMAIN e2.dict
                THEN IF key \in DOMAIN e1.dict
                     THEN merge_errors(e1.dict[key], e2.dict[key])
                     ELSE e2.dict[key]
                ELSE e1.dict[key]])
    ELSE IF IsList(e1) /\ IsList(e2) THEN
        List(e1.list \o e2.list)
    ELSE IF IsStr(e1) /\ IsStr(e2) THEN
        List(<<e1, e2>>)
    ELSE
        e2

---------------------------------------------------------------------------
(* Bounded input sets *)

MaxLen == 2

Msgs == {"x", "y"}
Keys == {Str("a"), Str("b")}

SeqsUpTo(S, n) == UNION {[1..m -> S] : m \in 1..n}

\* non-empty lists of messages, at most MaxLen long
MsgLists == {List(s) : s \in SeqsUpTo({Str(m) : m \in Msgs}, MaxLen)}
OneMsgLists == {List(<<Str(m)>>) : m \in Msgs}

DictsOver(K, V) == {Dict(f) : f \in UNION {[D -> V] : D \in SUBSET K}}

\* nested trees: each key absent or a one-message list
NestedTrees == DictsOver(Keys, OneMsgLists)

\* trees: key "a" absent, a message list or a nested tree; key "b" absent or a list
EntriesAt(k, V) == {EmptyDict} \cup {Dict([j \in {k} |-> v]) : v \in V}

Trees ==
    {Dict([k \in (DOMAIN ta.dict) \cup (DOMAIN tb.dict) |->
              IF k \in DOMAIN ta.dict THEN ta.dict[k] ELSE tb.dict[k]]) :
        ta \in EntriesAt(Str("a"), MsgLists \cup NestedTrees),
        tb \in EntriesAt(Str("b"), MsgLists)}

ErrorValues == Trees \cup MsgLists \cup {Str(m) : m \in Msgs} \cup {None, EmptyList}

---------------------------------------------------------------------------
PureIdle == pin = None /\ pout = None /\ ppc = "idle"

MergeOnlyIdle ==
    /\ errors1 = None /\ errors2 = None /\ errors3 = None
    /\ merged = None /\ assocL = None /\ assocR = None
    /\ mpc = "idle"

MergeIdle == MergeOnlyIdle /\ PureIdle

NoOp == [name |-> "none", field_name |-> None, index |-> None,
         raises |-> FALSE, payload |-> None]

StoreIdle ==
    /\ store = EmptyDict /\ sbefore = EmptyDict
    /\ sop = NoOp /\ sret = None /\ sexc = "none" /\ nops = 0

AuxIdle ==
    /\ nfield = None /\ nacc = [t \in {1, 2} |-> 0] /\ nret = [t \in {1, 2} |-> None]
    /\ hdecl = None /\ hooks = None /\ htrace = <<>>
    /\ gvobj = None /\ gvkey = None /\ gvdefault = None
    /\ gvret = None /\ gvexc = "none" /\ gvpc = "idle"

LoadIdle ==
    /\ schema = None /\ lop = "none" /\ ldata = None /\ lmany = None
    /\ lpartial = None /\ lunknown = None
    /\ lret = None /\ lexc = "none" /\ lerrors = EmptyDict
    /\ cpc = [t \in {1, 2} |-> "idle"] /\ ccall = [t \in {1, 2} |-> None]
    /\ cres = [t \in {1, 2} |-> None]
    /\ AuxIdle

\* class_registry._registry = {}
RegIdle ==
    /\ registry = [k \in {} |-> <<>>] /\ registered = {} /\ nregs = 0
    /\ gname = "" /\ gall = FALSE /\ gret = None /\ gexc = "none"
    /\ declared = None /\ regbefore = registry
    /\ rpc = [t \in {1, 2} |-> "idle"] /\ rarg = [t \in {1, 2} |-> None]
    /\ observed = None

InitMerge ==
    /\ StoreIdle /\ LoadIdle /\ RegIdle
    /\ errors1 \in ErrorValues
    /\ errors2 \in ErrorValues
    /\ errors3 = None
    /\ merged = None /\ assocL = None /\ assocR = None
    /\ mpc = "start"
    /\ PureIdle

Merge ==
    /\ mpc = "start"
    /\ merged' = merge_errors(errors1, errors2)
    /\ mpc' = "merged"
    /\ UNCHANGED <<errors1, errors2, errors3, assocL, assocR, pureVars>>
    /\ UNCHANGED <<storeVars, loadVars, regVars>>

NextMerge == Merge

SpecMerge == InitMerge /\ [][NextMerge]_vars

\* three trees, merged in both groupings; key "a" absent, a one-message
\* list or a non-empty nested tree
AssocTrees == EntriesAt(Str("a"), OneMsgLists \cup (NestedTrees \ {EmptyDict}))

InitAssoc ==
    /\ StoreIdle /\ LoadIdle /\ RegIdle
    /\ errors1 \in AssocTrees
    /\ errors2 \in AssocTrees
    /\ errors3 \in AssocTrees
    /\ merged = None /\ assocL = None /\ assocR = None
    /\ mpc = "start"
    /\ PureIdle

Assoc ==
    /\ mpc = "start"
    /\ assocL' = merge_errors(merge_errors(errors1, errors2), errors3)
    /\ assocR' = merge_errors(errors1, merge_errors(errors2, errors3))
    /\ mpc' = "assoc"
    /\ UNCHANGED <<errors1, errors2, errors3, merged, pureVars>>
    /\ UNCHANGED <<storeVars, loadVars, regVars>>

NextAssoc == Assoc

SpecAssoc == InitAssoc /\ [][NextAssoc]_vars

---------------------------------------------------------------------------
(* Properties of merge_errors *)

\* the messages contained anywhere in an error value
RECURSIVE Messages(_)
Messages(e) ==
    IF IsStr(e) THEN {e.str}
    ELSE IF IsList(e) THEN UNION {Messages(e.list[i]) : i \in DOMAIN e.list}
    ELSE IF IsDict(e) THEN UNION {Messages(e.dict[k]) : k \in DOMAIN e.dict}
    ELSE {}

\* a single message, a message list or a tree
ProperErrors == Trees \cup MsgLists \cup {Str(m) : m \in Msgs}

\* C3: merging never overwrites: every message contained in errors1 or in
\* errors2 is contained in merge_errors(errors1, errors2), whatever the
\* kinds (message, list, tree) of the two values.
C3_MergeKeepsEveryMessage ==
    (mpc = "merged" /\ errors1 \in ProperErrors /\ errors2 \in ProperErrors)
        => (Messages(errors1) \cup Messages(errors2)) \subseteq Messages(merged)

\* C4: deep-merge of error trees is associative.
C4_MergeAssociative ==
    mpc = "assoc" => assocL = assocR

\* r lists l1's elements first, then l2's, each in its own order
IsConcat(l1, l2, r) ==
    /\ Len(r) = Len(l1) + Len(l2)
    /\ \A i \in 1..Len(l1) : r[i] = l1[i]
    /\ \A j \in 1..Len(l2) : r[Len(l1) + j] = l2[j]

\* r is the deep merge of trees t1 and t2, leaf by leaf; nothing is asked
\* of a key that holds a list in one tree and a tree in the other
RECURSIVE IsDeepMerge(_, _, _)
IsDeepMerge(t1, t2, r) ==
    /\ IsDict(r)
    /\ DOMAIN r.dict = (DOMAIN t1.dict) \cup (DOMAIN t2.dict)
    /\ \A k \in DOMAIN r.dict :
          IF k \in DOMAIN t1.dict /\ k \in DOMAIN t2.dict THEN
              IF IsList(t1.dict[k]) /\ IsList(t2.dict[k]) THEN
                  /\ IsList(r.dict[k])
                  /\ IsConcat(t1.dict[k].list, t2.dict[k].list, r.dict[k].list)
              ELSE IF IsDict(t1.dict[k]) /\ IsDict(t2.dict[k]) THEN
                  IsDeepMerge(t1.dict[k], t2.dict[k], r.dict[k])
              ELSE TRUE
          ELSE IF k \in DOMAIN t1.dict THEN r.dict[k] = t1.dict[k]
          ELSE r.dict[k] = t2.dict[k]

Tree1(k, v) == Dict([j \in {Str(k)} |-> v])
MsgList(s) == List([i \in DOMAIN s |-> Str(s[i])])

\* C5: merge_errors on two trees concatenates the lists of every leaf the
\* two share (errors1's messages first), merges shared nested trees
\* recursively and carries over the keys only one tree has; {a:[x]} with
\* {a:[y]} gives {a:[x,y]}, {a:{b:[x]}} with {a:{b:[y]}} gives {a:{b:[x,y]}}.
C5_MergeConcatenatesLeaves ==
    (mpc = "merged" /\ errors1 \in Trees /\ errors2 \in Trees) =>
        /\ IsDeepMerge(errors1, errors2, merged)
        /\ (errors1 = Tree1("a", MsgList(<<"x">>)) /\ errors2 = Tree1("a", MsgList(<<"y">>)))
              => merged = Tree1("a", MsgList(<<"x", "y">>))
        /\ (errors1 = Tree1("a", Tree1("b", MsgList(<<"x">>)))
              /\ errors2 = Tree1("a", Tree1("b", MsgList(<<"y">>))))
              => merged = Tree1("a", Tree1("b", MsgList(<<"x", "y">>)))

\* two trees sharing a nested tree and a two-message leaf, with a nested key
\* only the first has, and their merge
C5_Witness ==
    /\ mpc = "merged"
    /\ errors1 = Dict([k \in Keys |->
                    IF k = Str("a")
                    THEN Dict([j \in Keys |-> MsgList(<<"x">>)])
                    ELSE MsgList(<<"x", "y">>)])
    /\ errors2 = Dict([k \in Keys |->
                    IF k = Str("a")
                    THEN Tree1("b", MsgList(<<"y">>))
                    ELSE MsgList(<<"y", "x">>)])
    /\ merged = Dict([k \in Keys |->
                    IF k = Str("a")
                    THEN Dict([j \in Keys |->
                            IF j = Str("a") THEN MsgList(<<"x">>)
                            ELSE MsgList(<<"x", "y">>)])
                    ELSE MsgList(<<"x", "y", "y", "x">>)])

---------------------------------------------------------------------------
(* exceptions.ValidationError, error_store.ErrorStore, Schema._call_and_store *)

\* ValidationError(message).messages
ValidationError_messages(message) ==
    IF IsStr(message) THEN List(<<message>>) ELSE message

\* store_error with "self.errors[field_name] = [error]"
store_error_replace(errors, field_name, error) ==
    [exc |-> "none",
     errors |-> Dict([k \in (DOMAIN errors.dict) \cup {field_name} |->
                  IF k = field_name THEN List(<<error>>) ELSE errors.dict[k]])]

\* ErrorStore.store_error(self, field_name, error): the errors dict after
\* the call, and the exception that escapes it
store_error(errors, field_name, error) ==
    IF ~IsHashable(field_name) THEN
        [exc |-> "TypeError", errors |-> errors]
    ELSE
        [exc |-> "none",
         errors |-> Dict([k \in (DOMAIN errors.dict) \cup {field_name} |->
                      IF k = field_name
                      THEN List(Append(IF field_name \in DOMAIN errors.dict
                                       THEN errors.dict[field_name].list
                                       ELSE <<>>, error))
                      ELSE errors.dict[k]])]

get_errors(errors) == errors

\* the parameters of store_error after self; it takes no **kwargs
store_error_params == <<"field_name", "error">>

\* whether Python binds a call of store_error with npos positional
\* arguments and the keyword arguments kw; if not, the call raises TypeError
\* before the body runs
store_error_accepts(npos, kw) ==
    /\ npos <= Len(store_error_params)
    /\ kw \subseteq {store_error_params[i] : i \in (npos + 1)..Len(store_error_params)}
    /\ npos + Cardinality(kw) = Len(store_error_params)

\* Schema._call_and_store(getter_func, data, field_name=, error_store=, index=)
\* getter is what getter_func(data) does: return payload, or raise
\* ValidationError(payload)
_call_and_store(getter, field_name, errors, index) ==
    IF ~getter.raises THEN
        [ret |-> getter.payload, exc |-> "none", errors |-> errors]
    ELSE IF ~store_error_accepts(2, {"index"}) THEN
        \* error_store.store_error(error.messages, field_name, index=index)
        [ret |-> NoReturn, exc |-> "TypeError", errors |-> errors]
    ELSE
        LET r == store_error(errors, ValidationError_messages(getter.payload),
                             field_name)
        IN  IF r.exc = "none"
            THEN [ret |-> missing, exc |-> "none", errors |-> r.errors]
            ELSE [ret |-> NoReturn, exc |-> r.exc, errors |-> r.errors]

MaxStores == 3
MaxIndex == 1

\* the message argument of a ValidationError: a message, a list, a tree
RaisedMessages ==
    {Str("x"), Str("y"), List(<<Str("x")>>), Dict([k \in {Str("b")} |-> List(<<Str("x")>>)])}
ReturnedValues == {Str("v"), None}
Indices == {None} \cup {PyInt(i) : i \in 0..MaxIndex}

InitStore ==
    /\ MergeIdle /\ LoadIdle /\ RegIdle
    /\ StoreIdle

StoreError(field_name, message) ==
    LET r == store_error(store, field_name, ValidationError_messages(message)) IN
    /\ nops < MaxStores
    /\ sbefore' = store
    /\ store' = r.errors
    /\ sexc' = r.exc
    /\ sret' = None
    /\ sop' = [name |-> "store_error", field_name |-> field_name, index |-> None,
               raises |-> FALSE, payload |-> message]
    /\ nops' = nops + 1
    /\ UNCHANGED <<mergeVars, loadVars, regVars>>

CallAndStore(raises, payload, field_name, index) ==
    LET r == _call_and_store([raises |-> raises, payload |-> payload],
                            field_name, store, index) IN
    /\ nops < MaxStores
    /\ sbefore' = store
    /\ store' = r.errors
    /\ sexc' = r.exc
    /\ sret' = r.ret
    /\ sop' = [name |-> "call_and_store", field_name |-> field_name, index |-> index,
               raises |-> raises, payload |-> payload]
    /\ nops' = nops + 1
    /\ UNCHANGED <<mergeVars, loadVars, regVars>>

NextStore ==
    \/ \E f \in Keys, m \in RaisedMessages : StoreError(f, m)
    \/ \E f \in Keys, i \in Indices :
          \/ \E m \in RaisedMessages : CallAndStore(TRUE, m, f, i)
          \/ \E v \in ReturnedValues : CallAndStore(FALSE, v, f, i)

SpecStore == InitStore /\ [][NextStore]_vars

\* C2: when getter_func raises a ValidationError, _call_and_store records
\* its messages in the error store under field_name (below the item index
\* when one is given), returns missing and lets no exception escape; when
\* getter_func returns, its value is returned and the store is unchanged.
C2_CallAndStoreCatches ==
    sop.name = "call_and_store" =>
        IF sop.raises THEN
            /\ sexc = "none"
            /\ sret = missing
            /\ LET top == get_errors(store)
                   msgs == Messages(ValidationError_messages(sop.payload))
               IN  IF sop.index = None
                   THEN /\ sop.field_name \in DOMAIN top.dict
                        /\ msgs \subseteq Messages(top.dict[sop.field_name])
                   ELSE /\ sop.index \in DOMAIN top.dict
                        /\ IsDict(top.dict[sop.index])
                        /\ sop.field_name \in DOMAIN top.dict[sop.index].dict
                        /\ msgs \subseteq
                               Messages(top.dict[sop.index].dict[sop.field_name])
        ELSE
            /\ sexc = "none"
            /\ sret = sop.payload
            /\ store = sbefore

\* every leaf is a non-empty list of messages; below a key is a leaf or a tree
RECURSIVE WellFormedTree(_)
WellFormedTree(t) ==
    /\ IsDict(t)
    /\ \A k \in DOMAIN t.dict :
          IF IsDict(t.dict[k]) THEN WellFormedTree(t.dict[k])
          ELSE /\ IsList(t.dict[k])
               /\ Len(t.dict[k].list) >= 1
               /\ \A i \in DOMAIN t.dict[k].list : IsStr(t.dict[k].list[i])

\* C6: after any sequence of store operations every leaf of the error tree
\* is a non-empty list of messages: never a bare message, an empty list or
\* a list holding lists or trees.
C6_LeavesAreMessageLists ==
    WellFormedTree(get_errors(store))

---------------------------------------------------------------------------
(* schema.Schema: construction and load *)

\* utils.py: the unknown-field policies
EXCLUDE == Str("exclude")
INCLUDE == Str("include")
RAISE == Str("raise")

\* Field.default_error_messages
default_error_messages ==
    [required |-> "Missing data for required field.",
     null |-> "Field may not be null.",
     validator_failed |-> "Invalid value."]

\* Schema._default_error_messages
_default_error_messages ==
    [type |-> "Invalid input type.", unknown |-> "Unknown field."]

\* getattr(meta, name, default): an option class Meta does not set is missing
getattr(meta, name, default) ==
    IF meta[name] = missing THEN default ELSE meta[name]

\* SchemaOpts.__init__: the options load reads
SchemaOpts(meta) ==
    [exclude |-> getattr(meta, "exclude", EmptyList),
     index_errors |-> getattr(meta, "index_errors", PyBool(TRUE)),
     load_only |-> getattr(meta, "load_only", EmptyList),
     dump_only |-> getattr(meta, "dump_only", EmptyList),
     unknown |-> getattr(meta, "unknown", RAISE)]

\* a declared field; Field.__init__ keeps required
Field(required) == [field |-> [required |-> required]]

\* Schema._init_fields: its body is `pass`, the instance is left as it is
_init_fields(self) == self

\* Schema._normalize_nested_options: its body is `pass`
_normalize_nested_options(self) == self

\* Schema.__init__
Schema_init(declared_fields, opts, only, exclude, many, load_only, dump_only, partial, unknown) ==
    LET self == _normalize_nested_options(
            [declared_fields |-> declared_fields,
             opts |-> opts,
             many |-> many,
             only |-> only,
             exclude |-> PySet(set(opts.exclude).set \cup set(exclude).set),
             load_only |-> Or(set(load_only), set(opts.load_only)),
             dump_only |-> Or(set(dump_only), set(opts.dump_only)),
             partial |-> partial,
             unknown |-> IF unknown = None THEN opts.unknown ELSE unknown])
    IN  _init_fields(
            [f \in (DOMAIN self) \cup {"fields", "load_fields", "dump_fields"} |->
                IF f \in {"fields", "load_fields", "dump_fields"} THEN EmptyDict
                ELSE self[f]])

\* Field._validate_missing: its body is `pass`
_validate_missing(field, value) == [ret |-> None, exc |-> "none"]

\* What a method of a Schema instance gives: the value it returns, the
\* exception that escapes it, the error tree it built, and the instance after it.

\* Schema._deserialize: its body is `pass`; error_store is not touched
_deserialize(self, data, error_store, many, partial, unknown, index) ==
    [ret |-> None, exc |-> "none", errors |-> error_store, self |-> self]

\* Schema._do_load: its body is `pass`
_do_load(self, data, many, partial, unknown, postprocess) ==
    [ret |-> None, exc |-> "none", errors |-> EmptyDict, self |-> self]

\* load that keeps the call's partial on the instance
load_storing_partial(self, data, many, partial, unknown) ==
    [ret |-> None, exc |-> "none", errors |-> EmptyDict,
     self |-> [self EXCEPT !.partial = partial]]

\* Schema.load: its body is `pass`
load(self, data, many, partial, unknown) ==
    [ret |-> None, exc |-> "none", errors |-> EmptyDict, self |-> self]

\* Schema.dump: its body is `pass`
dump(self, obj, many) ==
    [ret |-> None, exc |-> "none", errors |-> EmptyDict, self |-> self]

\* Schema.validate: its body is `pass`
validate(self, data, many, partial) ==
    [ret |-> None, exc |-> "none", errors |-> EmptyDict, self |-> self]

MaxRecords == 3

FieldNames == {Str("name"), Str("age")}
InputKeys == FieldNames \cup {Str("extra")}
GoodValue == Str("v")
BadValue == Str("bad")

DeclaredFieldSets == {Dict([f \in FieldNames |-> Field(r[f])]) : r \in [FieldNames -> BOOLEAN]}
Metas == [exclude : {missing}, load_only : {missing}, dump_only : {missing},
          index_errors : {missing, PyBool(FALSE)},
          unknown : {missing, RAISE, EXCLUDE, INCLUDE}]

Records == DictsOver(InputKeys, {GoodValue, BadValue})
ManyRecords ==
    {Dict([f \in FieldNames |-> GoodValue]),
     Dict([f \in FieldNames |-> IF f = Str("name") THEN BadValue ELSE GoodValue]),
     Dict([f \in FieldNames |-> BadValue])}
RecordLists == {List(l) : l \in SeqsUpTo(ManyRecords, MaxRecords)}

Partials == {None, PyBool(TRUE), List(<<Str("name")>>), List(<<Str("name"), Str("age")>>)}
Unknowns == {None, RAISE, EXCLUDE, INCLUDE}
CallInputs ==
    ({<<d, None>> : d \in Records} \cup {<<d, PyBool(TRUE)>> : d \in RecordLists})
        \X Partials \X Unknowns

InitLoad ==
    /\ MergeIdle /\ StoreIdle /\ RegIdle
    /\ \E d \in DeclaredFieldSets, meta \in Metas :
          schema = Schema_init(d, SchemaOpts(meta), None, EmptyList, PyBool(FALSE),
                               EmptyList, EmptyList, None, None)
    /\ lop = "none" /\ ldata = None /\ lmany = None
    /\ lpartial = None /\ lunknown = None
    /\ lret = None /\ lexc = "none" /\ lerrors = EmptyDict
    /\ cpc = [t \in {1, 2} |-> "idle"] /\ ccall = [t \in {1, 2} |-> None]
    /\ cres = [t \in {1, 2} |-> None]
    /\ AuxIdle

Called(op, data, many, partial, unknown, r) ==
    /\ lop = "none"
    /\ lop' = op
    /\ ldata' = data /\ lmany' = many /\ lpartial' = partial /\ lunknown' = unknown
    /\ lret' = r.ret /\ lexc' = r.exc /\ lerrors' = get_errors(r.errors)
    /\ schema' = r.self
    /\ UNCHANGED <<cpc, ccall, cres, auxVars>>
    /\ UNCHANGED <<mergeVars, storeVars, regVars>>

Load(data, many, partial, unknown) ==
    Called("load", data, many, partial, unknown,
           load(schema, data, many, partial, unknown))

DoLoad(data, many, partial, unknown) ==
    Called("_do_load", data, many, partial, unknown,
           _do_load(schema, data, many, partial, unknown, TRUE))

Deserialize(data, many, partial, unknown) ==
    Called("_deserialize", data, many, partial, unknown,
           _deserialize(schema, data, EmptyDict, many, partial,
                        IF unknown = None THEN RAISE ELSE unknown, None))

NextLoad ==
    \E c \in CallInputs :
        \/ Load(c[1][1], c[1][2], c[2], c[3])
        \/ DoLoad(c[1][1], c[1][2], c[2], c[3])
        \/ Deserialize(c[1][1], c[1][2], c[2], c[3])

SpecLoad == InitLoad /\ [][NextLoad]_vars

---------------------------------------------------------------------------
(* What the load contract asks of a call, read off the call's inputs *)

LoadFieldsOf(sch) == DOMAIN sch.declared_fields.dict
RequiredOf(sch) ==
    {f \in LoadFieldsOf(sch) : sch.declared_fields.dict[f].field.required}

\* the partial and unknown in force: the call's argument, else the instance's
EffPartial == IF lpartial = None THEN schema.partial ELSE lpartial
EffUnknown == IF lunknown = None THEN schema.unknown ELSE lunknown

\* the fields a partial value lets be absent
PartialSet(p) ==
    IF p = None \/ p = PyBool(FALSE) THEN {}
    ELSE IF p = PyBool(TRUE) THEN LoadFieldsOf(schema)
    ELSE {p.list[i] : i \in DOMAIN p.list}

MissingRequiredOf(rec) ==
    {f \in RequiredOf(schema) \ PartialSet(EffPartial) : f \notin DOMAIN rec.dict}
UnknownKeysOf(rec) == (DOMAIN rec.dict) \ LoadFieldsOf(schema)
\* the load fields whose converter rejects the value given
InvalidFieldsOf(rec) ==
    {f \in (DOMAIN rec.dict) \cap LoadFieldsOf(schema) : rec.dict[f] = BadValue}

LoadedOne == lop = "load" /\ IsDict(ldata) /\ lmany = None
LoadedMany == lop = "load" /\ IsList(ldata) /\ lmany = PyBool(TRUE)

RequiredLeaf == List(<<Str(default_error_messages.required)>>)
UnknownLeaf == List(<<Str(_default_error_messages.unknown)>>)

\* C1: a record missing K >= 1 required fields, with no other issue, makes
\* load fail with an error tree of exactly K leaves, one per missing field,
\* each holding 'Missing data for required field.'.
C1_EveryMissingFieldReported ==
    (/\ LoadedOne
     /\ EffPartial = None
     /\ MissingRequiredOf(ldata) # {}
     /\ UnknownKeysOf(ldata) = {}
     /\ InvalidFieldsOf(ldata) = {})
    => /\ lexc = "ValidationError"
       /\ lerrors = Dict([f \in MissingRequiredOf(ldata) |-> RequiredLeaf])

\* C7: for a record with keys that map to no load field: under RAISE load
\* fails with {key: ['Unknown field.']} for each such key; under EXCLUDE load
\* succeeds and the result has none of them; under INCLUDE load succeeds and
\* the result holds each with its input value.
C7_UnknownPolicy ==
    (/\ LoadedOne
     /\ UnknownKeysOf(ldata) # {}
     /\ MissingRequiredOf(ldata) = {}
     /\ InvalidFieldsOf(ldata) = {})
    => /\ EffUnknown = RAISE =>
            /\ lexc = "ValidationError"
            /\ \A k \in UnknownKeysOf(ldata) :
                  k \in DOMAIN lerrors.dict /\ lerrors.dict[k] = UnknownLeaf
       /\ EffUnknown = EXCLUDE =>
            /\ lexc = "none"
            /\ IsDict(lret) => \A k \in UnknownKeysOf(ldata) : k \notin DOMAIN lret.dict
       /\ EffUnknown = INCLUDE =>
            /\ lexc = "none"
            /\ IsDict(lret)
            /\ \A k \in UnknownKeysOf(ldata) :
                  k \in DOMAIN lret.dict /\ lret.dict[k] = ldata.dict[k]

\* C8: with partial = P, load succeeds as to requiredness iff every required
\* field outside P is present; each absent required field outside P gives
\* exactly one leaf and no field of P gives any; partial=True is P = all.
C8_PartialRequiredness ==
    (/\ LoadedOne
     /\ UnknownKeysOf(ldata) = {}
     /\ InvalidFieldsOf(ldata) = {})
    => /\ lexc = "none" <=> MissingRequiredOf(ldata) = {}
       /\ lexc = "ValidationError" =>
             lerrors = Dict([f \in MissingRequiredOf(ldata) |-> RequiredLeaf])

\* C9: with many=True and index_errors enabled, the top-level keys of the
\* error tree are exactly the indices of the records with an invalid field,
\* and the entry at index i holds exactly record i's field failures.
C9_ErrorsKeyedByIndex ==
    (/\ LoadedMany
     /\ schema.opts.index_errors = PyBool(TRUE)
     /\ \A i \in DOMAIN ldata.list :
           UnknownKeysOf(ldata.list[i]) = {} /\ MissingRequiredOf(ldata.list[i]) = {})
    => LET bad == {i \in DOMAIN ldata.list : InvalidFieldsOf(ldata.list[i]) # {}} IN
       /\ DOMAIN lerrors.dict = {PyInt(i - 1) : i \in bad}
       /\ \A i \in bad :
             /\ IsDict(lerrors.dict[PyInt(i - 1)])
             /\ DOMAIN lerrors.dict[PyInt(i - 1)].dict = InvalidFieldsOf(ldata.list[i])

---------------------------------------------------------------------------
(* schema.Schema: one instance used from several execution contexts *)

LoadThreads == {1, 2}

\* the calls the contexts make: load with differing inputs and per-call
\* many, partial and unknown, and dump
ConcCalls ==
    [op : {"load"},
     data : {EmptyDict, Dict([f \in {Str("name")} |-> GoodValue])},
     many : {None}, partial : {None, PyBool(TRUE)}, unknown : {None, EXCLUDE}]
    \cup
    [op : {"load"},
     data : {List(<<Dict([f \in FieldNames |-> BadValue])>>)},
     many : {PyBool(TRUE)}, partial : {None, PyBool(TRUE)}, unknown : {None, EXCLUDE}]
    \cup
    [op : {"dump"},
     data : {EmptyDict, Dict([f \in FieldNames |-> GoodValue])},
     many : {None}, partial : {None}, unknown : {None}]

\* the method call a context makes on the instance
Apply(self, call) ==
    IF call.op = "load"
    THEN load(self, call.data, call.many, call.partial, call.unknown)
    ELSE dump(self, call.data, call.many)

\* the instance as Schema.__init__ made it, with no call made on it
Pristine(sch) ==
    Schema_init(sch.declared_fields, sch.opts, None, EmptyList, PyBool(FALSE),
                EmptyList, EmptyList, None, None)

InitConcLoad == InitLoad

\* a context calls load or dump on the instance
Enter(t, call) ==
    /\ cpc[t] = "idle"
    /\ cpc' = [cpc EXCEPT ![t] = "running"]
    /\ ccall' = [ccall EXCEPT ![t] = call]
    /\ UNCHANGED <<schema, lop, ldata, lmany, lpartial, lunknown, lret, lexc,
                   lerrors, cres, auxVars>>
    /\ UNCHANGED <<mergeVars, storeVars, regVars>>

\* the body of the call runs and the call returns
Return(t) ==
    /\ cpc[t] = "running"
    /\ LET r == Apply(schema, ccall[t]) IN
        /\ schema' = r.self
        /\ cres' = [cres EXCEPT ![t] =
                        [ret |-> r.ret, exc |-> r.exc, errors |-> get_errors(r.errors),
                         overlapped |-> \E u \in LoadThreads \ {t} : cpc[u] = "running"]]
    /\ cpc' = [cpc EXCEPT ![t] = "returned"]
    /\ UNCHANGED <<lop, ldata, lmany, lpartial, lunknown, lret, lexc, lerrors, ccall>>
    /\ UNCHANGED auxVars
    /\ UNCHANGED <<mergeVars, storeVars, regVars>>

NextConcLoad ==
    \/ \E t \in LoadThreads, call \in ConcCalls : Enter(t, call)
    \/ \E t \in LoadThreads : Return(t)

SpecConcLoad == InitConcLoad /\ [][NextConcLoad]_vars

---------------------------------------------------------------------------
(* schema.Schema: the fields an instance binds *)

Onlys == {None, List(<<Str("name")>>)}
Excludes == {EmptyList, List(<<Str("age")>>)}
LoadOnlys == {EmptyList, List(<<Str("name")>>)}
DumpOnlys == {EmptyList, List(<<Str("age")>>)}

InitBind ==
    /\ MergeIdle /\ StoreIdle /\ RegIdle
    /\ \E d \in DeclaredFieldSets, meta \in Metas,
          only \in Onlys, exclude \in Excludes,
          load_only \in LoadOnlys, dump_only \in DumpOnlys :
          schema = Schema_init(d, SchemaOpts(meta), only, exclude, PyBool(FALSE),
                               load_only, dump_only, None, None)
    /\ lop = "none" /\ ldata = None /\ lmany = None
    /\ lpartial = None /\ lunknown = None
    /\ lret = None /\ lexc = "none" /\ lerrors = EmptyDict
    /\ cpc = [t \in {1, 2} |-> "idle"] /\ ccall = [t \in {1, 2} |-> None]
    /\ cres = [t \in {1, 2} |-> None]
    /\ AuxIdle

\* one more call on the instance, whatever was called before
CalledAgain(op, data, r) ==
    /\ lop' = op /\ ldata' = data
    /\ lret' = r.ret /\ lexc' = r.exc /\ lerrors' = get_errors(r.errors)
    /\ schema' = r.self
    /\ UNCHANGED <<lmany, lpartial, lunknown, cpc, ccall, cres, auxVars>>
    /\ UNCHANGED <<mergeVars, storeVars, regVars>>

BindLoad(data) == CalledAgain("load", data, load(schema, data, None, None, None))
BindDump(obj) == CalledAgain("dump", obj, dump(schema, obj, None))
BindValidate(data) == CalledAgain("validate", data, validate(schema, data, None, None))

BindRecords == {EmptyDict, Dict([f \in FieldNames |-> GoodValue])}

NextBind ==
    \E d \in BindRecords :
        \/ BindLoad(d)
        \/ BindDump(d)
        \/ BindValidate(d)

SpecBind == InitBind /\ [][NextBind]_vars

\* the field names only and exclude leave of the declared ones
BoundNames(sch) ==
    (IF sch.only = None THEN DOMAIN sch.declared_fields.dict
     ELSE (DOMAIN sch.declared_fields.dict) \cap set(sch.only).set)
        \ sch.exclude.set

\* C16: the bound fields of an instance are the declared fields filtered by
\* only and exclude, load_fields those not dump-only and dump_fields those
\* not load-only, at construction and after every load, dump and validate.
C16_BoundFieldsFixed ==
    /\ DOMAIN schema.fields.dict = BoundNames(schema)
    /\ DOMAIN schema.load_fields.dict = BoundNames(schema) \ schema.dump_only.set
    /\ DOMAIN schema.dump_fields.dict = BoundNames(schema) \ schema.load_only.set

---------------------------------------------------------------------------
(* fields.Nested: the schema a nested field resolves to *)

MaxAccess == 2

NestedThreads == {1, 2}

\* class Node(Schema): id = Str(); name = Str(); parent = Nested(...)
NodeClass == [class |-> [module |-> "m1", name |-> "A"]]
NodeFields == Dict([f \in {Str("id"), Str("name"), Str("parent")} |-> Field(FALSE)])
NoMeta ==
    [exclude |-> missing, load_only |-> missing, dump_only |-> missing,
     index_errors |-> missing, unknown |-> missing]

\* Node(only=only)
Node(only) ==
    Schema_init(NodeFields, SchemaOpts(NoMeta), only, EmptyList, PyBool(FALSE),
                EmptyList, EmptyList, None, None)

\* a zero-argument factory, kept as the value a call of it gives; nothing
\* calls it when the field is constructed
Lambda(result) == [lambda |-> result]

\* what Nested is given: a class, an instance, a registry name, a dict of
\* fields, a factory of a class and a factory of an instance
NestedTargets ==
    {NodeClass, Node(None), Str("A"),
     Dict([f \in {Str("id")} |-> Field(FALSE)]),
     Lambda(NodeClass), Lambda(Node(List(<<Str("id")>>)))}

\* Nested.__init__
Nested_init(nested, only, exclude, many, unknown) ==
    [nested |-> nested, only |-> only, exclude |-> exclude, many |-> many,
     unknown |-> unknown, _schema |-> None]

\* Nested.schema: the property's body is `pass`
Nested_schema(self) == [ret |-> None, self |-> self]

InitNested ==
    /\ MergeIdle /\ StoreIdle /\ RegIdle
    /\ schema = None /\ lop = "none" /\ ldata = None /\ lmany = None
    /\ lpartial = None /\ lunknown = None
    /\ lret = None /\ lexc = "none" /\ lerrors = EmptyDict
    /\ cpc = [t \in {1, 2} |-> "idle"] /\ ccall = [t \in {1, 2} |-> None]
    /\ cres = [t \in {1, 2} |-> None]
    /\ \E nested \in NestedTargets, only \in {None, List(<<Str("id")>>)},
          exclude \in {EmptyList, List(<<Str("name")>>)}, many \in BOOLEAN :
          nfield = Nested_init(nested, only, exclude, PyBool(many), None)
    /\ nacc = [t \in {1, 2} |-> 0] /\ nret = [t \in {1, 2} |-> None]
    /\ hdecl = None /\ hooks = None /\ htrace = <<>>
    /\ gvobj = None /\ gvkey = None /\ gvdefault = None
    /\ gvret = None /\ gvexc = "none" /\ gvpc = "idle"

\* an execution context reads field.schema
AccessSchema(t) ==
    /\ nacc[t] < MaxAccess
    /\ LET r == Nested_schema(nfield) IN
        /\ nfield' = r.self
        /\ nret' = [nret EXCEPT ![t] = r.ret]
    /\ nacc' = [nacc EXCEPT ![t] = @ + 1]
    /\ UNCHANGED <<schema, lop, ldata, lmany, lpartial, lunknown, lret, lexc,
                   lerrors, cpc, ccall, cres>>
    /\ UNCHANGED <<hdecl, hooks, htrace, gvobj, gvkey, gvdefault, gvret, gvexc, gvpc>>
    /\ UNCHANGED <<mergeVars, storeVars, regVars>>

NextNested == \E t \in NestedThreads : AccessSchema(t)

SpecNested == InitNested /\ [][NextNested]_vars

IsSchemaInstance(v) == "declared_fields" \in DOMAIN v

\* C17: the cache of a Nested field starts empty; once the schema property
\* has been read the cache holds a resolved schema, and every read, by either
\* of two racing callers, returned the cached schema.
C17_NestedSchemaCachedOnce ==
    /\ (\A t \in NestedThreads : nacc[t] = 0) => nfield._schema = None
    /\ (\E t \in NestedThreads : nacc[t] > 0) =>
          /\ IsSchemaInstance(nfield._schema)
          /\ \A t \in NestedThreads : nacc[t] > 0 => nret[t] = nfield._schema

\* a self-reference declared lazily and restricted to 'id':
\* Nested(lambda: Node(only=("id",))) or Nested(lambda: Node, only=("id",))
LazySelfOnlyId ==
    \/ nfield.nested = Lambda(Node(List(<<Str("id")>>))) /\ nfield.only = None
    \/ nfield.nested = Lambda(NodeClass) /\ nfield.only = List(<<Str("id")>>)

\* C18: for a self-referential schema whose nested reference is a factory,
\* construction resolves nothing, and each read of the nested schema ends
\* with an instance whose bound fields are exactly 'id'.
C18_LazySelfReferenceResolves ==
    (LazySelfOnlyId /\ nfield.exclude = EmptyList) =>
        /\ (\A t \in NestedThreads : nacc[t] = 0) => nfield._schema = None
        /\ \A t \in NestedThreads :
              nacc[t] > 0 =>
                  /\ IsSchemaInstance(nret[t])
                  /\ DOMAIN nret[t].fields.dict = {Str("id")}

---------------------------------------------------------------------------
(* schema.Schema: the hooks of a load pass *)

\* the tags schema.py imports from marshmallow.decorators
PRE_LOAD == "pre_load"
VALIDATES_SCHEMA == "validates_schema"
POST_LOAD == "post_load"

\* the methods of a schema class that carry a tag, by tag
HookDecls ==
    [pre_load : SUBSET {"p1", "p2"},
     validates_schema : SUBSET {"v1"},
     post_load : SUBSET {"q1"}]

\* SchemaMeta.resolve_hooks: its body is `pass`
resolve_hooks(cls) == None

InitHooks ==
    /\ MergeIdle /\ StoreIdle /\ RegIdle
    /\ \E d \in DeclaredFieldSets :
          schema = Schema_init(d, SchemaOpts(NoMeta), None, EmptyList, PyBool(FALSE),
                               EmptyList, EmptyList, None, None)
    /\ lop = "none" /\ ldata = None /\ lmany = None
    /\ lpartial = None /\ lunknown = None
    /\ lret = None /\ lexc = "none" /\ lerrors = EmptyDict
    /\ cpc = [t \in {1, 2} |-> "idle"] /\ ccall = [t \in {1, 2} |-> None]
    /\ cres = [t \in {1, 2} |-> None]
    /\ nfield = None /\ nacc = [t \in {1, 2} |-> 0] /\ nret = [t \in {1, 2} |-> None]
    /\ hdecl \in HookDecls
    \* SchemaMeta.__init__: cls._hooks = cls.resolve_hooks()
    /\ hooks = resolve_hooks(hdecl)
    /\ htrace = <<>>
    /\ gvobj = None /\ gvkey = None /\ gvdefault = None
    /\ gvret = None /\ gvexc = "none" /\ gvpc = "idle"

\* one load pass: _do_load(data, postprocess=postprocess); its body is `pass`,
\* so the pass invokes no hook and processes no field
HookLoad(data, postprocess) ==
    /\ lop = "none"
    /\ LET r == _do_load(schema, data, None, None, None, postprocess) IN
        /\ lret' = r.ret /\ lexc' = r.exc /\ lerrors' = get_errors(r.errors)
        /\ schema' = r.self
    /\ lop' = "_do_load" /\ ldata' = data
    /\ htrace' = htrace
    /\ UNCHANGED <<lmany, lpartial, lunknown, cpc, ccall, cres>>
    /\ UNCHANGED <<nfield, nacc, nret, hdecl, hooks>>
    /\ UNCHANGED <<gvobj, gvkey, gvdefault, gvret, gvexc, gvpc>>
    /\ UNCHANGED <<mergeVars, storeVars, regVars>>

NextHooks == \E data \in Records, postprocess \in BOOLEAN : HookLoad(data, postprocess)

SpecHooks == InitHooks /\ [][NextHooks]_vars

\* the positions of the pass's trace at which a phase acted
Phase(ph) == {i \in DOMAIN htrace : htrace[i].phase = ph}
Before(ph1, ph2) == \A i \in Phase(ph1), j \in Phase(ph2) : i < j
Invoked(ph, name) == \E i \in Phase(ph) : htrace[i].name = name

\* C19: in a load pass the phases occur in order: every pre-processing hook
\* runs and completes before any field is processed, every load field is
\* processed, the whole-shape validation hooks run after the fields, and
\* post-processing hooks run only in a pass with no error.
C19_LoadPhasesInOrder ==
    lop = "_do_load" =>
        /\ Before(PRE_LOAD, "field")
        /\ Before("field", VALIDATES_SCHEMA)
        /\ Before(VALIDATES_SCHEMA, POST_LOAD)
        /\ lerrors # EmptyDict => Phase(POST_LOAD) = {}
        /\ \A h \in hdecl.pre_load : Invoked(PRE_LOAD, h)
        /\ \A f \in DOMAIN schema.declared_fields.dict : Invoked("field", f)
        /\ lerrors = EmptyDict => \A h \in hdecl.validates_schema : Invoked(VALIDATES_SCHEMA, h)

---------------------------------------------------------------------------
(* utils.get_value *)

\* In this part a str is kept as the sequence of its characters, so that
\* key.split('.') is computed: "a.b" is CStr(<<"a", ".", "b">>).
CStr(chars) == [str |-> chars]
IsInt(e) == DOMAIN e = {"int"}

\* an object without __getitem__, with the attributes given
Object(attrs) == [object |-> attrs]
IsObject(e) == DOMAIN e = {"object"}

\* s.split(sep), s and the parts being strs
RECURSIVE split(_, _)
split(s, sep) ==
    IF \E i \in DOMAIN s.str : s.str[i] = sep
    THEN LET i == CHOOSE i \in DOMAIN s.str :
                      s.str[i] = sep /\ \A j \in 1..(i - 1) : s.str[j] # sep
         IN  <<CStr(SubSeq(s.str, 1, i - 1))>>
                 \o split(CStr(SubSeq(s.str, i + 1, Len(s.str))), sep)
    ELSE <<s>>

\* obj[key]
getitem(obj, key) ==
    IF IsDict(obj) THEN
        IF key \in DOMAIN obj.dict
        THEN [ret |-> obj.dict[key], exc |-> "none"]
        ELSE [ret |-> NoReturn, exc |-> "KeyError"]
    ELSE IF IsList(obj) THEN
        IF ~IsInt(key) THEN [ret |-> NoReturn, exc |-> "TypeError"]
        ELSE IF key.int >= 0 /\ key.int < Len(obj.list)
        THEN [ret |-> obj.list[key.int + 1], exc |-> "none"]
        ELSE IF key.int < 0 /\ -key.int <= Len(obj.list)
        THEN [ret |-> obj.list[Len(obj.list) + key.int + 1], exc |-> "none"]
        ELSE [ret |-> NoReturn, exc |-> "IndexError"]
    ELSE [ret |-> NoReturn, exc |-> "TypeError"]

\* getattr(obj, key): the attribute name must be a str
py_getattr(obj, key) ==
    IF ~IsStr(key) THEN [ret |-> NoReturn, exc |-> "TypeError"]
    ELSE IF IsObject(obj) /\ key.str \in DOMAIN obj.object
    THEN [ret |-> obj.object[key.str], exc |-> "none"]
    ELSE [ret |-> NoReturn, exc |-> "AttributeError"]

\* _get_value_for_key(obj, key, default)
_get_value_for_key(obj, key, default) ==
    LET item == getitem(obj, key) IN
    IF item.exc \notin {"KeyError", "IndexError", "TypeError", "AttributeError"}
    THEN item
    ELSE LET attr == py_getattr(obj, key) IN
         IF attr.exc = "AttributeError"
         THEN [ret |-> default, exc |-> "none"]
         ELSE attr

\* _get_value_for_keys(obj, keys, default)
RECURSIVE _get_value_for_keys(_, _, _)
_get_value_for_keys(obj, keys, default) ==
    IF Len(keys) = 1 THEN _get_value_for_key(obj, keys[1], default)
    ELSE LET first == _get_value_for_key(obj, keys[1], default) IN
         IF first.exc # "none" THEN first
         ELSE _get_value_for_keys(first.ret, Tail(keys), default)

\* get_value(obj, key, default)
get_value(obj, key, default) ==
    IF IsInt(key) THEN _get_value_for_key(obj, key, default)
    ELSE _get_value_for_keys(obj, split(key, "."), default)

\* Schema.get_attribute(obj, attr, default)
get_attribute(obj, attr, default) == get_value(obj, attr, default)

KeyA == CStr(<<"a">>)
KeyB == CStr(<<"b">>)
KeyAB == CStr(<<"a", ".", "b">>)

GetObjects ==
    {EmptyDict, None,
     Dict([k \in {KeyA} |-> PyInt(1)]),
     Dict([k \in {KeyA} |-> Dict([j \in {KeyB} |-> PyInt(2)])]),
     Dict([k \in {KeyAB} |-> PyInt(3)]),
     Dict([k \in {PyInt(0)} |-> PyInt(4)]),
     List(<<PyInt(7), PyInt(8)>>),
     Object([k \in {<<"a">>} |-> PyInt(5)]),
     Object([k \in {<<"a">>} |-> Object([j \in {<<"b">>} |-> PyInt(6)])]),
     Dict([k \in {KeyA} |-> List(<<PyInt(7)>>)])}
GetKeys == {KeyA, KeyB, KeyAB} \cup {PyInt(i) : i \in {-1, 0, 1, 5}}
GetDefaults == {missing, PyInt(9)}

InitGetValue ==
    /\ MergeIdle /\ StoreIdle /\ RegIdle
    /\ schema = None /\ lop = "none" /\ ldata = None /\ lmany = None
    /\ lpartial = None /\ lunknown = None
    /\ lret = None /\ lexc = "none" /\ lerrors = EmptyDict
    /\ cpc = [t \in {1, 2} |-> "idle"] /\ ccall = [t \in {1, 2} |-> None]
    /\ cres = [t \in {1, 2} |-> None]
    /\ nfield = None /\ nacc = [t \in {1, 2} |-> 0] /\ nret = [t \in {1, 2} |-> None]
    /\ hdecl = None /\ hooks = None /\ htrace = <<>>
    /\ gvobj \in GetObjects /\ gvkey \in GetKeys /\ gvdefault \in GetDefaults
    /\ gvret = None /\ gvexc = "none" /\ gvpc = "idle"

Got(pc, r) ==
    /\ gvpc = "idle"
    /\ gvpc' = pc
    /\ gvret' = r.ret /\ gvexc' = r.exc
    /\ UNCHANGED <<gvobj, gvkey, gvdefault>>
    /\ UNCHANGED <<schema, lop, ldata, lmany, lpartial, lunknown, lret, lexc,
                   lerrors, cpc, ccall, cres>>
    /\ UNCHANGED <<nfield, nacc, nret, hdecl, hooks, htrace>>
    /\ UNCHANGED <<mergeVars, storeVars, regVars>>

GetValue == Got("get_value", get_value(gvobj, gvkey, gvdefault))
GetAttribute == Got("get_attribute", get_attribute(gvobj, gvkey, gvdefault))

NextGetValue == GetValue \/ GetAttribute

SpecGetValue == InitGetValue /\ [][NextGetValue]_vars

\* one access step as the contract has it: record[key] when that succeeds,
\* otherwise the attribute named key when there is one, otherwise default
Lookup(obj, key, default) ==
    IF getitem(obj, key).exc = "none" THEN getitem(obj, key).ret
    ELSE IF py_getattr(obj, key).exc = "none" THEN py_getattr(obj, key).ret
    ELSE default

\* the access steps along the segments of a dotted path
RECURSIVE LookupPath(_, _, _)
LookupPath(obj, keys, default) ==
    IF Len(keys) = 1 THEN Lookup(obj, keys[1], default)
    ELSE LookupPath(Lookup(obj, keys[1], default), Tail(keys), default)

\* C20: for every record and key (a plain string, a dotted path taken segment
\* by segment, or an integer index) get_value returns record[key] when that
\* succeeds, otherwise the attribute named key when it exists, otherwise the
\* default; it never raises for an absent key or index.
C20_GetValueNeverRaises ==
    gvpc # "idle" =>
        /\ gvexc = "none"
        /\ gvret = IF IsInt(gvkey) THEN Lookup(gvobj, gvkey, gvdefault)
                   ELSE LookupPath(gvobj, split(gvkey, "."), gvdefault)

---------------------------------------------------------------------------
(* class_registry: register and get_class *)

\* a schema class: its __module__ and its __name__
Modules == {"m1", "m2"}
ClassNames == {"A", "B"}
Classes == [module : Modules, name : ClassNames]

\* f"{cls.__module__}.{cls.__name__}"
FullPath(cls) == cls.module \o "." \o cls.name

\* reg[key] = value
SetItem(reg, key, value) ==
    [k \in (DOMAIN reg) \cup {key} |-> IF k = key THEN value ELSE reg[k]]

\* register without its first assignment: only the full path is entered
register_path_only(reg, classname, cls) ==
    SetItem(reg, FullPath(cls), <<cls>>)

\* register(classname, cls)
register(reg, classname, cls) ==
    SetItem(SetItem(reg, classname, <<cls>>), FullPath(cls), <<cls>>)

\* get_class(classname, all)
get_class(reg, classname, all) ==
    IF classname \notin DOMAIN reg THEN
        [ret |-> NoReturn, exc |-> "RegistryError"]
    ELSE IF all THEN
        [ret |-> [classes |-> reg[classname]], exc |-> "none"]
    ELSE IF Len(reg[classname]) > 1 THEN
        [ret |-> NoReturn, exc |-> "RegistryError"]
    ELSE
        [ret |-> [class |-> reg[classname][1]], exc |-> "none"]

\* SchemaOpts.__init__: self.register = getattr(meta, 'register', True)
opts_register(meta) == getattr(meta, "register", PyBool(TRUE))

\* SchemaMeta.__init__ that registers whatever the register option is
SchemaMeta_init_always(reg, name, cls, opt) ==
    IF name # "" THEN register(reg, name, cls) ELSE reg

\* SchemaMeta.__init__(cls, name, bases, attrs), opt being cls.opts.register:
\* if name and cls.opts.register: class_registry.register(name, cls)
SchemaMeta_init(reg, name, cls, opt) ==
    IF name # "" /\ opt = PyBool(TRUE) THEN register(reg, name, cls) ELSE reg

\* the module Schema.from_dict creates its classes in
SchemaModule == "marshmallow.schema"

\* Schema.from_dict(fields, name=name): a class whose Meta has register = False
from_dict(reg, name) ==
    LET meta == [register |-> PyBool(FALSE)]
        schema_cls == [module |-> SchemaModule, name |-> name]
    IN  [cls |-> schema_cls,
         registry |-> SchemaMeta_init(reg, name, schema_cls, opts_register(meta))]

MaxRegs == 3

\* the names from_dict is given: its default and one a declared class has
GeneratedNames == {"GeneratedSchema", "A"}

\* the names looked up: bare names, full paths, and one never registered
LookupNames ==
    ClassNames \cup {FullPath(c) : c \in Classes} \cup {"C"}
        \cup GeneratedNames \cup {SchemaModule \o "." \o n : n \in GeneratedNames}

InitRegistry ==
    /\ MergeIdle /\ StoreIdle /\ LoadIdle
    /\ RegIdle

\* a class statement reaching SchemaMeta.__init__ with class Meta = meta
Declare(cls, meta, via, newreg) ==
    /\ nregs < MaxRegs
    /\ registry' = newreg
    /\ regbefore' = registry
    /\ declared' = [cls |-> cls, register |-> opts_register(meta), via |-> via]
    /\ registered' = IF newreg = registry THEN registered ELSE registered \cup {cls}
    /\ nregs' = nregs + 1
    \* no lookup has been made on the new registry
    /\ gname' = "" /\ gall' = FALSE /\ gret' = None /\ gexc' = "none"
    /\ UNCHANGED <<rpc, rarg, observed>>
    /\ UNCHANGED <<mergeVars, storeVars, loadVars>>

\* SchemaMeta.__init__ of a class that leaves Meta.register unset
Register(cls) ==
    LET meta == [register |-> missing] IN
    Declare(cls, meta, "class",
            SchemaMeta_init(registry, cls.name, cls, opts_register(meta)))

\* SchemaMeta.__init__ of a class declared with Meta.register = False
DeclareUnregistered(cls) ==
    LET meta == [register |-> PyBool(FALSE)] IN
    Declare(cls, meta, "class",
            SchemaMeta_init(registry, cls.name, cls, opts_register(meta)))

\* Schema.from_dict(fields, name=name)
FromDict(name) ==
    LET r == from_dict(registry, name) IN
    Declare(r.cls, [register |-> PyBool(FALSE)], "from_dict", r.registry)

GetClass(classname, all) ==
    LET r == get_class(registry, classname, all) IN
    /\ gname' = classname /\ gall' = all
    /\ gret' = r.ret /\ gexc' = r.exc
    /\ UNCHANGED <<registry, registered, nregs, declared, regbefore>>
    /\ UNCHANGED <<rpc, rarg, observed>>
    /\ UNCHANGED <<mergeVars, storeVars, loadVars>>

NextRegistry ==
    \/ \E cls \in Classes : Register(cls)
    \/ \E cls \in Classes : DeclareUnregistered(cls)
    \/ \E n \in GeneratedNames : FromDict(n)
    \/ \E n \in LookupNames, all \in BOOLEAN : GetClass(n, all)

SpecRegistry == InitRegistry /\ [][NextRegistry]_vars

\* C10: get_class(name, all=False) raises RegistryError exactly when name is
\* absent from the registry or more than one registered type has name as its
\* bare name; a lookup by full path never fails for ambiguity and returns the
\* type registered under that path.
C10_LookupFailsIffAbsentOrAmbiguous ==
    (gname # "" /\ ~gall) =>
        /\ gexc = "RegistryError" <=>
              \/ gname \notin DOMAIN registry
              \/ Cardinality({c \in registered : c.name = gname}) > 1
        /\ \A c \in registered :
              gname = FullPath(c) => gexc = "none" /\ gret = [class |-> c]

\* the registered types whose bare name is n
RegisteredAs(n) == {c \in registered : c.name = n}

\* C11: after two distinct types with one bare name and different module
\* paths have been registered, get_class(bare_name, all=True) returns both of
\* them, and each full path still resolves to its own type.
C11_AllReturnsEveryTypeOfName ==
    /\ (gname \in ClassNames /\ gall /\ Cardinality(RegisteredAs(gname)) = 2) =>
          /\ gexc = "none"
          /\ {gret.classes[i] : i \in DOMAIN gret.classes} = RegisteredAs(gname)
    /\ \A c \in registered :
          (gname = FullPath(c) /\ ~gall) => gexc = "none" /\ gret = [class |-> c]

\* C12: immediately after register(name, cls) made by declaring a class whose
\* register option is not false, get_class(name) and
\* get_class('<module>.<name>') both return cls, when no other registered type
\* has the bare name.
C12_RegisterAddsBothEntries ==
    (/\ declared # None /\ declared.register = PyBool(TRUE)
     /\ RegisteredAs(declared.cls.name) = {declared.cls}
     /\ gname \in {declared.cls.name, FullPath(declared.cls)} /\ ~gall)
    => gexc = "none" /\ gret = [class |-> declared.cls]

\* a class was registered and then found under its bare name
C12_Witness ==
    /\ declared # None /\ declared.register = PyBool(TRUE)
    /\ RegisteredAs(declared.cls.name) = {declared.cls}
    /\ gname = declared.cls.name /\ ~gall
    /\ gret = [class |-> declared.cls]
    /\ Cardinality(registered) = 2

\* C14: a class declared with register=False, and every class generated by
\* Schema.from_dict, leaves the registry unchanged, so every lookup gives the
\* outcome it gave before the declaration.
C14_UnregisteredLeavesRegistry ==
    (declared # None /\ (declared.register = PyBool(FALSE) \/ declared.via = "from_dict"))
    => /\ registry = regbefore
       /\ gname # "" => [ret |-> gret, exc |-> gexc] = get_class(regbefore, gname, gall)

\* from_dict generated a class named as a registered one is, and the lookup of
\* that name afterwards still returns the registered one
C14_Witness ==
    /\ declared # None /\ declared.via = "from_dict"
    /\ declared.cls.name = "A"
    /\ gname = "A" /\ ~gall /\ gexc = "none"
    /\ gret \in {[class |-> c] : c \in Classes}

---------------------------------------------------------------------------
(* class_registry: register running in several execution contexts *)

RegThreads == {1, 2}

\* whether get_class(classname, all=True) succeeds and its list holds cls
Finds(reg, classname, cls) ==
    LET r == get_class(reg, classname, TRUE) IN
    /\ r.exc = "none"
    /\ \E i \in DOMAIN r.ret.classes : r.ret.classes[i] = cls

InitRegConc ==
    /\ MergeIdle /\ StoreIdle /\ LoadIdle
    /\ RegIdle

\* register, its first statement: _registry[classname] = [cls]
RegisterBare(t, cls) ==
    /\ rpc[t] = "idle"
    /\ registry' = SetItem(registry, cls.name, <<cls>>)
    /\ rpc' = [rpc EXCEPT ![t] = "bare"]
    /\ rarg' = [rarg EXCEPT ![t] = cls]
    /\ registered' = registered \cup {cls}
    /\ UNCHANGED <<nregs, gname, gall, gret, gexc, declared, regbefore, observed>>
    /\ UNCHANGED <<mergeVars, storeVars, loadVars>>

\* register, its second statement: _registry[f"{module}.{name}"] = [cls]
RegisterFull(t) ==
    /\ rpc[t] = "bare"
    /\ registry' = SetItem(registry, FullPath(rarg[t]), <<rarg[t]>>)
    /\ rpc' = [rpc EXCEPT ![t] = "done"]
    /\ UNCHANGED <<rarg, registered, nregs, gname, gall, gret, gexc, declared,
                   regbefore, observed>>
    /\ UNCHANGED <<mergeVars, storeVars, loadVars>>

\* another context looks cls up under its bare name and under its full path
Observe(cls) ==
    /\ observed' = [cls |-> cls,
                    bare |-> Finds(registry, cls.name, cls),
                    full |-> Finds(registry, FullPath(cls), cls)]
    /\ UNCHANGED <<registry, registered, nregs, gname, gall, gret, gexc,
                   declared, regbefore, rpc, rarg>>
    /\ UNCHANGED <<mergeVars, storeVars, loadVars>>

NextRegConc ==
    \/ \E t \in RegThreads, cls \in Classes : RegisterBare(t, cls)
    \/ \E t \in RegThreads : RegisterFull(t)
    \/ \E cls \in Classes : Observe(cls)

SpecRegConc == InitRegConc /\ [][NextRegConc]_vars

\* C13: in every interleaving of register calls with lookups from other
\* contexts, a lookup sees both entries of a class (bare name and full path)
\* or neither, and once two concurrent registrations have returned, neither
\* registered type has been lost from the entry of its bare name.
C13_RegistrationAtomic ==
    /\ observed # None => (observed.bare <=> observed.full)
    /\ (\A t \in RegThreads : rpc[t] = "done") =>
          \A t \in RegThreads : Finds(registry, rarg[t].name, rarg[t])

---------------------------------------------------------------------------
(* Functions and constructors applied once to drawn arguments *)

\* every other part of the program is idle
OthersIdle == MergeOnlyIdle /\ StoreIdle /\ LoadIdle /\ RegIdle

\* the call is made and gives r
Returned(pc, from, r) ==
    /\ ppc = from
    /\ ppc' = pc
    /\ pout' = r
    /\ UNCHANGED pin
    /\ UNCHANGED <<errors1, errors2, errors3, merged, assocL, assocR, mpc>>
    /\ UNCHANGED <<storeVars, loadVars, regVars>>

---------------------------------------------------------------------------
(* utils.isoformat and utils.from_iso_datetime *)

\* A datetime is [year, month, day, hour, minute, second, microsecond,
\* tzinfo]; tzinfo is None or a fixed offset from UTC in minutes. The text
\* is the sequence of its characters.
Timezone(minutes) == [offset |-> minutes]

DigitChars == <<"0", "1", "2", "3", "4", "5", "6", "7", "8", "9">>
DigitOf(c) == CHOOSE n \in 0..9 : DigitChars[n + 1] = c
IsDigit(c) == \E n \in 0..9 : DigitChars[n + 1] = c

\* f"{n:0{width}d}"
RECURSIVE ZeroPad(_, _)
ZeroPad(n, width) ==
    IF width = 0 THEN <<>>
    ELSE ZeroPad(n \div 10, width - 1) \o <<DigitChars[(n % 10) + 1]>>

\* int(text) of a text of digits
RECURSIVE int(_)
int(text) ==
    IF text = <<>> THEN 0
    ELSE 10 * int(SubSeq(text, 1, Len(text) - 1)) + DigitOf(text[Len(text)])

Abs(n) == IF n < 0 THEN -n ELSE n

\* isoformat(datetime): datetime.isoformat()
isoformat(d) ==
    ZeroPad(d.year, 4) \o <<"-">> \o ZeroPad(d.month, 2) \o <<"-">> \o ZeroPad(d.day, 2)
        \o <<"T">> \o ZeroPad(d.hour, 2) \o <<":">> \o ZeroPad(d.minute, 2)
        \o <<":">> \o ZeroPad(d.second, 2)
        \o (IF d.microsecond = 0 THEN <<>> ELSE <<".">> \o ZeroPad(d.microsecond, 6))
        \o (IF d.tzinfo = None THEN <<>>
            ELSE <<IF d.tzinfo.offset < 0 THEN "-" ELSE "+">>
                     \o ZeroPad(Abs(d.tzinfo.offset) \div 60, 2) \o <<":">>
                     \o ZeroPad(Abs(d.tzinfo.offset) % 60, 2))

AllDigits(text) == \A k \in DOMAIN text : IsDigit(text[k])

\* the tzinfo group: Z, or a sign, two digits and optionally two more,
\* with or without a colon
IsTzText(t) ==
    \/ t = <<"Z">>
    \/ /\ Len(t) \in {3, 5, 6} /\ t[1] \in {"+", "-"}
       /\ AllDigits(SubSeq(t, 2, 3))
       /\ Len(t) = 5 => AllDigits(SubSeq(t, 4, 5))
       /\ Len(t) = 6 => t[4] = ":" /\ AllDigits(SubSeq(t, 5, 6))

\* _iso8601_datetime_re.match(value).groupdict(), for texts with two-digit
\* fields and seconds; None when the text does not match
iso8601_match(value) ==
    LET n == Len(value)
        hasMicro == n >= 21 /\ value[20] = "."
        microEnd == IF hasMicro THEN 26 ELSE 19
        rest == SubSeq(value, microEnd + 1, n)
    IN  IF /\ n >= microEnd
           /\ AllDigits(SubSeq(value, 1, 4)) /\ value[5] = "-"
           /\ AllDigits(SubSeq(value, 6, 7)) /\ value[8] = "-"
           /\ AllDigits(SubSeq(value, 9, 10)) /\ value[11] \in {"T", " "}
           /\ AllDigits(SubSeq(value, 12, 13)) /\ value[14] = ":"
           /\ AllDigits(SubSeq(value, 15, 16)) /\ value[17] = ":"
           /\ AllDigits(SubSeq(value, 18, 19))
           /\ hasMicro => AllDigits(SubSeq(value, 21, 26))
           /\ rest = <<>> \/ IsTzText(rest)
        THEN [year |-> SubSeq(value, 1, 4), month |-> SubSeq(value, 6, 7),
              day |-> SubSeq(value, 9, 10), hour |-> SubSeq(value, 12, 13),
              minute |-> SubSeq(value, 15, 16), second |-> SubSeq(value, 18, 19),
              microsecond |-> IF hasMicro THEN CStr(SubSeq(value, 21, 26)) ELSE None,
              tzinfo |-> IF rest = <<>> THEN None ELSE CStr(rest)]
        ELSE None

\* get_fixed_timezone(offset), offset in minutes:
\* h, m = divmod(abs(int(offset)), 60); timezone(timedelta(hours=h, minutes=m))
get_fixed_timezone(offset) ==
    LET h == Abs(offset) \div 60
        m == Abs(offset) % 60
    IN  Timezone(60 * h + m)

\* dt.datetime(tzinfo=tzinfo, **groups): a keyword given twice is a TypeError
datetime_call(tzinfo, groups) ==
    IF "tzinfo" \in DOMAIN groups
    THEN [ret |-> NoReturn, exc |-> "TypeError"]
    ELSE [ret |-> [k \in (DOMAIN groups) \cup {"tzinfo"} |->
                      IF k = "tzinfo" THEN tzinfo ELSE groups[k]],
          exc |-> "none"]

\* from_iso_datetime(value)
from_iso_datetime(value) ==
    LET match == iso8601_match(value) IN
    IF match = None THEN [ret |-> NoReturn, exc |-> "ValueError"]
    ELSE
        LET groups == [match EXCEPT
                          !.year = int(match.year), !.month = int(match.month),
                          !.day = int(match.day), !.hour = int(match.hour),
                          !.minute = int(match.minute), !.second = int(match.second),
                          !.microsecond = IF match.microsecond = None THEN 0
                                          ELSE int(match.microsecond.str)]
            tz == groups.tzinfo.str
            offset_mins == IF Len(tz) > 3 THEN int(SubSeq(tz, Len(tz) - 1, Len(tz))) ELSE 0
            offset == 60 * int(SubSeq(tz, 2, 3)) + offset_mins
            tzinfo ==
                IF groups.tzinfo = None THEN None
                ELSE IF tz = <<"Z">> THEN Timezone(0)
                ELSE get_fixed_timezone(IF tz[1] = "-" THEN -offset ELSE offset)
        IN  datetime_call(tzinfo, groups)

Datetimes ==
    [year : {2020}, month : {1, 12}, day : {2}, hour : {0, 23}, minute : {4},
     second : {0, 59}, microsecond : {0, 5, 123456},
     tzinfo : {None} \cup {Timezone(o) : o \in {0, 60, -330, 765}}]

InitIso ==
    /\ OthersIdle
    /\ pin \in Datetimes /\ pout = None /\ ppc = "idle"

\* text = isoformat(d)
Format == Returned("formatted", "idle", [text |-> isoformat(pin)])

\* from_iso_datetime(text)
Parse ==
    LET r == from_iso_datetime(pout.text) IN
    Returned("parsed", "formatted", [text |-> pout.text, ret |-> r.ret, exc |-> r.exc])

NextIso == Format \/ Parse

SpecIso == InitIso /\ [][NextIso]_vars

\* C21: for every datetime d, naive or aware with any fixed UTC offset,
\* from_iso_datetime(isoformat(d)) returns a datetime equal to d with the
\* same UTC offset.
C21_IsoRoundTrip ==
    ppc = "parsed" => pout.exc = "none" /\ pout.ret = pin

---------------------------------------------------------------------------
(* Malformed declarations: SchemaOpts, SchemaMeta.__new__, Schema and Nested *)

Tuple(seq) == [tuple |-> seq]
IsTuple(e) == DOMAIN e = {"tuple"}
IsSet(e) == DOMAIN e = {"set"}

\* utils.is_iterable_but_not_string
is_iterable_but_not_string(obj) ==
    IsList(obj) \/ IsTuple(obj) \/ IsSet(obj) \/ IsDict(obj)

\* utils.is_collection
is_collection(obj) == is_iterable_but_not_string(obj) /\ ~IsDict(obj)

\* isinstance(v, (list, tuple))
isinstance_list_tuple(v) == IsList(v) \/ IsTuple(v)

\* bool(v) of a list or tuple
truth(v) == IF IsList(v) THEN v.list # <<>> ELSE v.tuple # <<>>

Raised(exc) == [exc |-> exc, ret |-> NoReturn]
Gave(ret) == [exc |-> "none", ret |-> ret]

\* SchemaOpts(meta): the checks of __init__, then the options
SchemaOpts_call(meta) ==
    LET fields == getattr(meta, "fields", Tuple(<<>>))
        additional == getattr(meta, "additional", Tuple(<<>>))
        exclude == getattr(meta, "exclude", Tuple(<<>>))
    IN  IF ~isinstance_list_tuple(fields) THEN Raised("ValueError")
        ELSE IF ~isinstance_list_tuple(additional) THEN Raised("ValueError")
        ELSE IF truth(fields) /\ truth(additional) THEN Raised("ValueError")
        ELSE IF ~isinstance_list_tuple(exclude) THEN Raised("ValueError")
        ELSE Gave([f \in (DOMAIN SchemaOpts(meta)) \cup {"fields", "additional"} |->
                      IF f = "fields" THEN fields
                      ELSE IF f = "additional" THEN additional
                      ELSE SchemaOpts(meta)[f]])

\* schema._get_fields: its body is `pass`
_get_fields(attrs) == None

\* schema._get_fields_by_mro: its body is `pass`
_get_fields_by_mro(klass) == None

\* SchemaMeta.get_declared_fields: its body is `pass`
get_declared_fields(klass, cls_fields, inherited_fields) == None

\* SchemaMeta.__new__(mcs, name, bases, attrs): `for field_name, _ in
\* cls_fields` over None is a TypeError
SchemaMeta_new(name, bases, attrs) ==
    LET cls_fields == _get_fields(attrs) IN
    IF cls_fields = None THEN Raised("TypeError")
    ELSE
        LET klass == [class |-> [name |-> name, bases |-> bases]]
            inherited_fields == _get_fields_by_mro(klass)
            opts == SchemaOpts_call(attrs.Meta)
        IN  IF opts.exc # "none" THEN Raised(opts.exc)
            ELSE Gave([class |-> [name |-> name, bases |-> bases, opts |-> opts.ret,
                                  _declared_fields |->
                                      get_declared_fields(klass, cls_fields, inherited_fields)]])

\* Schema(only=only, exclude=exclude): the checks of __init__, then the instance
Schema_call(declared_fields, opts, only, exclude) ==
    IF only # None /\ ~is_collection(only) THEN Raised("StringNotCollectionError")
    ELSE IF ~is_collection(exclude) THEN Raised("StringNotCollectionError")
    ELSE Gave(Schema_init(declared_fields, opts, only, exclude, PyBool(FALSE),
                          EmptyList, EmptyList, None, None))

\* Nested.__init__ without the checks of only and exclude
Nested_call_unchecked(nested, only, exclude) ==
    Gave(Nested_init(nested, only, exclude, PyBool(FALSE), None))

\* Nested(nested, only=only, exclude=exclude): the checks of __init__, then
\* the field
Nested_call(nested, only, exclude) ==
    IF only # None /\ ~is_collection(only) THEN Raised("StringNotCollectionError")
    ELSE IF ~is_collection(exclude) THEN Raised("StringNotCollectionError")
    ELSE Gave(Nested_init(nested, only, exclude, PyBool(FALSE), None))

MetaOptionValues ==
    {missing, Tuple(<<>>), List(<<Str("name")>>), Tuple(<<Str("age")>>), Str("name"),
     PySet({Str("name")})}
DeclaredMetas ==
    [fields : MetaOptionValues, additional : MetaOptionValues,
     exclude : {missing, List(<<Str("age")>>), Str("age")},
     load_only : {missing}, dump_only : {missing}, index_errors : {missing},
     unknown : {missing}]
OnlyArgs == {None, EmptyList, List(<<Str("name")>>), Str("name"), Dict([k \in {Str("name")} |-> Str("x")])}
ExcludeArgs == {EmptyList, List(<<Str("age")>>), Str("age"), None}

MalformedCalls ==
    [op : {"options", "declare"}, meta : DeclaredMetas]
        \cup [op : {"Schema", "Nested"}, only : OnlyArgs, exclude : ExcludeArgs]

InitMalformed ==
    /\ OthersIdle
    /\ pin \in MalformedCalls /\ pout = None /\ ppc = "idle"

\* OPTIONS_CLASS(meta)
Options ==
    /\ pin.op = "options"
    /\ Returned("options", "idle", SchemaOpts_call(pin.meta))

\* class A(Schema): class Meta: ...
DeclareShape ==
    /\ pin.op = "declare"
    /\ Returned("declared", "idle", SchemaMeta_new("A", <<>>, [Meta |-> pin.meta]))

\* Node(only=..., exclude=...)
ConstructSchema ==
    /\ pin.op = "Schema"
    /\ Returned("constructed", "idle",
                Schema_call(NodeFields, SchemaOpts(NoMeta), pin.only, pin.exclude))

\* Nested(Node, only=..., exclude=...)
ConstructNested ==
    /\ pin.op = "Nested"
    /\ Returned("constructed", "idle", Nested_call(NodeClass, pin.only, pin.exclude))

NextMalformed == Options \/ DeclareShape \/ ConstructSchema \/ ConstructNested

SpecMalformed == InitMalformed /\ [][NextMalformed]_vars

\* a Meta option given and not empty
NonEmptyOption(v) == v # missing /\ v \notin {Tuple(<<>>), EmptyList}
\* a Meta option given as something other than a list or tuple
NotListOrTuple(v) == v # missing /\ ~(IsList(v) \/ IsTuple(v))
MalformedMeta(meta) ==
    \/ NonEmptyOption(meta.fields) /\ NonEmptyOption(meta.additional)
    \/ NotListOrTuple(meta.fields)
    \/ NotListOrTuple(meta.additional)
    \/ NotListOrTuple(meta.exclude)
\* a string, or another value that is not a collection of names
NonCollection(v) == IsStr(v) \/ IsDict(v) \/ v = None

\* C22: a Meta that sets both fields and additional, or gives fields,
\* additional or exclude as something other than a list or tuple, makes the
\* options and the declaration raise and no shape type is produced; only or
\* exclude given as a non-collection makes constructing a Schema or a Nested
\* field raise StringNotCollectionError and no instance is produced.
C22_MalformedDeclarationRaises ==
    /\ (ppc \in {"options", "declared"} /\ MalformedMeta(pin.meta)) =>
          pout.exc # "none" /\ pout.ret = NoReturn
    /\ (ppc = "options" /\ MalformedMeta(pin.meta)) => pout.exc = "ValueError"
    /\ (ppc = "constructed"
            /\ ((pin.only # None /\ NonCollection(pin.only)) \/ NonCollection(pin.exclude))) =>
          pout.exc = "StringNotCollectionError" /\ pout.ret = NoReturn

\* a Nested field was constructed with only given as a single string
C22_Witness ==
    /\ ppc = "constructed" /\ pin.op = "Nested" /\ IsStr(pin.only)
    /\ pout.exc = "StringNotCollectionError"

\* the options were built from a Meta with both fields and additional
C22_WitnessOptions ==
    /\ ppc = "options" /\ NonEmptyOption(pin.meta.fields)
    /\ NonEmptyOption(pin.meta.additional) /\ pout.exc = "ValueError"

---------------------------------------------------------------------------
(* Schema.__init__: copy.deepcopy(self._declared_fields), Field.__deepcopy__ *)

\* Objects live in a heap, a function from object ids to values; an attribute
\* that holds a list or dict holds the id of that object. A field object is
\* [name, parent, _schema, validators, metadata, error_messages], the last
\* three being ids.
MaxValidators == 2
CloneInstances == {1, 2}
FieldId(i) == IF i = 1 THEN "f1" ELSE "f2"

\* Field(): validators = [], metadata = {}, error_messages = messages
Field_new ==
    [decl |-> [name |-> None, parent |-> None, _schema |-> None,
               validators |-> "V0", metadata |-> "M0", error_messages |-> "E0"],
     V0 |-> EmptyList,
     M0 |-> EmptyDict,
     E0 |-> Dict([k \in {Str("required")} |-> Str("Missing data for required field.")])]

\* heap with a new object
Alloc(heap, id, value) ==
    [o \in (DOMAIN heap) \cup {id} |-> IF o = id THEN value ELSE heap[o]]

\* copy.copy(obj): a new object with the same attribute values, ids included
copy_copy(heap, id, newid) == Alloc(heap, newid, heap[id])

\* Field.__deepcopy__(self, memo): return copy.copy(self)
Field_deepcopy(heap, id, newid) == copy_copy(heap, id, newid)

\* copy.deepcopy(self._declared_fields): a new dict, each field through
\* Field.__deepcopy__
deepcopy_declared_fields(heap, fields, i) ==
    [heap |-> Field_deepcopy(heap, fields[Str("name")], FieldId(i)),
     ret |-> [k \in DOMAIN fields |-> FieldId(i)]]

\* the class-level declaration {"name": Field()} and no instance
InitClone ==
    /\ OthersIdle
    /\ pin = Dict([k \in {Str("name")} |-> "decl"])
    /\ pout = [heap |-> Field_new, declared_fields |-> [i \in {} |-> None]]
    /\ ppc = "idle"

CloneStep(out) ==
    /\ pout' = out
    /\ UNCHANGED <<pin, ppc>>
    /\ UNCHANGED <<errors1, errors2, errors3, merged, assocL, assocR, mpc>>
    /\ UNCHANGED <<storeVars, loadVars, regVars>>

\* instance i = Schema(): self.declared_fields = copy.deepcopy(self._declared_fields)
Construct(i) ==
    /\ i \notin DOMAIN pout.declared_fields
    /\ LET c == deepcopy_declared_fields(pout.heap, pin.dict, i) IN
       CloneStep([heap |-> c.heap,
                  declared_fields |->
                      [j \in (DOMAIN pout.declared_fields) \cup {i} |->
                          IF j = i THEN c.ret ELSE pout.declared_fields[j]]])

FieldOf(i) == pout.declared_fields[i][Str("name")]
SetAttr(attr, i, value) ==
    CloneStep([pout EXCEPT !.heap[FieldOf(i)][attr] = value])
SetObject(id, value) == CloneStep([pout EXCEPT !.heap[id] = value])

\* field = instance.declared_fields["name"]; field.parent = instance;
\* field.name = "name"
Bind(i) ==
    /\ i \in DOMAIN pout.declared_fields
    /\ CloneStep([pout EXCEPT !.heap[FieldOf(i)].parent = PyInt(i),
                              !.heap[FieldOf(i)].name = Str("name")])

\* field._schema = the schema resolved for instance i
CacheSchema(i) ==
    /\ i \in DOMAIN pout.declared_fields
    /\ SetAttr("_schema", i, PyInt(i))

\* field.validators.append(validator of instance i)
AppendValidator(i) ==
    /\ i \in DOMAIN pout.declared_fields
    /\ LET id == pout.heap[FieldOf(i)].validators IN
       /\ Len(pout.heap[id].list) < MaxValidators
       /\ SetObject(id, List(Append(pout.heap[id].list, PyInt(i))))

\* field.metadata["owner"] = i
SetMetadata(i) ==
    /\ i \in DOMAIN pout.declared_fields
    /\ LET id == pout.heap[FieldOf(i)].metadata IN
       SetObject(id, Dict([k \in (DOMAIN pout.heap[id].dict) \cup {Str("owner")} |->
                              IF k = Str("owner") THEN PyInt(i) ELSE pout.heap[id].dict[k]]))

\* field.error_messages["required"] = the message of instance i
SetErrorMessage(i) ==
    /\ i \in DOMAIN pout.declared_fields
    /\ LET id == pout.heap[FieldOf(i)].error_messages IN
       SetObject(id, Dict([pout.heap[id].dict EXCEPT ![Str("required")] = PyInt(i)]))

NextClone ==
    \E i \in CloneInstances :
        \/ Construct(i)
        \/ Bind(i)
        \/ CacheSchema(i)
        \/ AppendValidator(i)
        \/ SetMetadata(i)
        \/ SetErrorMessage(i)

SpecClone == InitClone /\ [][NextClone]_vars

\* what a holder of the field object id observes of it
Observes(id) ==
    LET f == pout.heap[id] IN
    [name |-> f.name, parent |-> f.parent, _schema |-> f._schema,
     validators |-> pout.heap[f.validators], metadata |-> pout.heap[f.metadata],
     error_messages |-> pout.heap[f.error_messages]]

\* the values instance i has written
OwnValues(i) == {PyInt(i), Str("name")}
\* every value of the observation is as declared or written by one of owners
OnlyFrom(obs, owners) ==
    LET asDeclared == {None, Str("Missing data for required field.")}
        ok == asDeclared \cup UNION {OwnValues(i) : i \in owners}
    IN  /\ obs.name \in ok /\ obs.parent \in ok /\ obs._schema \in ok
        /\ \A k \in DOMAIN obs.validators.list : obs.validators.list[k] \in ok
        /\ \A k \in DOMAIN obs.metadata.dict : obs.metadata.dict[k] \in ok
        /\ \A k \in DOMAIN obs.error_messages.dict : obs.error_messages.dict[k] \in ok

\* C23: each instance holds its own deep clone of the declared field: the
\* class-level declaration never observes a change made through an instance,
\* and an instance's field observes only the changes made through that
\* instance (owner and name, schema cache, validator list, metadata, error
\* messages).
C23_FieldsClonedPerInstance ==
    /\ OnlyFrom(Observes("decl"), {})
    /\ \A i \in DOMAIN pout.declared_fields : OnlyFrom(Observes(FieldOf(i)), {i})

---------------------------------------------------------------------------
(* fields.Field.__init__ and its subclasses; a None value on load *)

\* Field(load_default=..., required=..., allow_none=...): allow_none is
\* computed, then a required field with a load default is refused
Field_call(load_default, required, allow_none) ==
    IF required = PyBool(TRUE) /\ load_default # missing THEN Raised("ValueError")
    ELSE Gave([load_default |-> load_default,
               allow_none |-> IF allow_none = None THEN PyBool(load_default = None)
                              ELSE allow_none,
               required |-> required,
               validators |-> EmptyList])

\* Constant(constant, **kwargs): super().__init__(**kwargs), then
\* self.load_default = constant
Constant_call(constant, load_default, required, allow_none) ==
    LET base == Field_call(load_default, required, allow_none) IN
    IF base.exc # "none" THEN base
    ELSE Gave([f \in (DOMAIN base.ret) \cup {"constant", "dump_default"} |->
                  IF f \in {"constant", "load_default", "dump_default"} THEN constant
                  ELSE base.ret[f]])

\* Method(**kwargs), Function(**kwargs), Nested(nested, **kwargs): the
\* keyword arguments go to Field.__init__ as they are
Subclass_call(load_default, required, allow_none) ==
    Field_call(load_default, required, allow_none)

\* Field.deserialize: its body is `pass`
Field_deserialize(self, value) == [ret |-> None, exc |-> "none"]

FieldClasses == {"Field", "Constant", "Method", "Function", "Nested"}
FieldCalls ==
    [cls : FieldClasses, constant : {None, PyInt(42)},
     load_default : {missing, None, PyInt(0)},
     required : {PyBool(TRUE), PyBool(FALSE)},
     allow_none : {None, PyBool(TRUE), PyBool(FALSE)}]

InitField ==
    /\ OthersIdle
    /\ pin \in FieldCalls /\ pout = None /\ ppc = "idle"

\* field = cls(...)
ConstructField ==
    Returned("constructed", "idle",
             IF pin.cls = "Field"
             THEN Field_call(pin.load_default, pin.required, pin.allow_none)
             ELSE IF pin.cls = "Constant"
             THEN Constant_call(pin.constant, pin.load_default, pin.required, pin.allow_none)
             ELSE Subclass_call(pin.load_default, pin.required, pin.allow_none))

\* a schema declaring name = field and age = Field()
SchemaWith(field) ==
    Schema_init(Dict([f \in FieldNames |-> IF f = Str("name") THEN field ELSE Field(FALSE)]),
                SchemaOpts(NoMeta), None, EmptyList, PyBool(FALSE),
                EmptyList, EmptyList, None, None)
NoneRecord == Dict([f \in FieldNames |-> IF f = Str("name") THEN None ELSE GoodValue])

\* SchemaWith(field).load({"name": None, "age": "v"})
LoadNone ==
    /\ ppc = "constructed" /\ pout.exc = "none"
    /\ LET r == load(SchemaWith(pout.ret), NoneRecord, None, None, None) IN
       Returned("loaded", "constructed",
                [exc |-> "none", ret |-> pout.ret,
                 loaded |-> [ret |-> r.ret, exc |-> r.exc, errors |-> r.errors]])

\* field.deserialize(None)
DeserializeNone ==
    /\ ppc = "constructed" /\ pout.exc = "none"
    /\ LET r == Field_deserialize(pout.ret, None) IN
       Returned("deserialized", "constructed",
                [exc |-> "none", ret |-> pout.ret,
                 loaded |-> [ret |-> r.ret, exc |-> r.exc, errors |-> EmptyDict]])

NextField == ConstructField \/ LoadNone \/ DeserializeNone

SpecField == InitField /\ [][NextField]_vars

NullLeaf == List(<<Str("Field may not be null.")>>)

\* C24: a constructed field is nullable as its allow_none argument says when
\* given, and otherwise exactly when its load_default is None; loading a
\* record whose value for the field is None gives None for a nullable field
\* and the other field's value, and for a non-nullable field fails with 'Field
\* may not be null.' under the field's key only.
C24_NullabilityOnLoad ==
    /\ (ppc # "idle" /\ pout.exc = "none") =>
          pout.ret.allow_none =
              (IF pin.allow_none # None THEN pin.allow_none
               ELSE PyBool(pout.ret.load_default = None))
    /\ (ppc = "loaded" /\ pout.ret.allow_none = PyBool(TRUE)) =>
          /\ pout.loaded.exc = "none"
          /\ pout.loaded.ret = NoneRecord
    /\ (ppc = "loaded" /\ pout.ret.allow_none = PyBool(FALSE)) =>
          /\ pout.loaded.exc = "ValidationError"
          /\ pout.loaded.errors = Dict([f \in {Str("name")} |-> NullLeaf])

\* C29: every field constructed without raising, of any field class, that is
\* required has the missing sentinel as its load default.
C29_RequiredHasNoLoadDefault ==
    (ppc # "idle" /\ pout.exc = "none" /\ pout.ret.required = PyBool(TRUE)) =>
        pout.ret.load_default = missing

---------------------------------------------------------------------------
(* schema._get_fields_by_mro and SchemaMeta.__new__: the fields of a type *)

\* A type C with ancestors P and G, in resolution order <<C, P, G>>; each
\* declares some of the names a and b, and a descriptor is known by the
\* type that declared it.
ResolveNames == {Str("a"), Str("b")}
Descriptor(owner, name) == [field |-> [owner |-> owner, name |-> name]]
FieldsOf(owner, names) == Dict([n \in names |-> Descriptor(owner, n)])
Hierarchies ==
    [own : SUBSET ResolveNames, parent : SUBSET ResolveNames, grand : SUBSET ResolveNames]

InitResolve ==
    /\ OthersIdle
    /\ pin \in Hierarchies /\ pout = None /\ ppc = "idle"

Ancestors(h) ==
    <<[class |-> [name |-> "P", _declared_fields |-> FieldsOf("P", h.parent)]],
      [class |-> [name |-> "G", _declared_fields |-> FieldsOf("G", h.grand)]]>>

\* class C(P): a = Field(); b = Field()
DeclareType ==
    Returned("declared", "idle",
             SchemaMeta_new("C", Ancestors(pin),
                            [Meta |-> NoMeta, fields |-> FieldsOf("C", pin.own)]))

\* _get_fields_by_mro(C)
CollectByMro ==
    Returned("collected", "idle",
             Gave(_get_fields_by_mro([class |-> [name |-> "C", bases |-> Ancestors(pin)]])))

NextResolve == DeclareType \/ CollectByMro

SpecResolve == InitResolve /\ [][NextResolve]_vars

\* the inherited fields: each name of an ancestor, from the closest one
InheritedOf(h) ==
    Dict([n \in h.parent \cup h.grand |->
             IF n \in h.parent THEN Descriptor("P", n) ELSE Descriptor("G", n)])
\* the fields of the type: its own, then the inherited ones
ResolvedOf(h) ==
    Dict([n \in h.own \cup h.parent \cup h.grand |->
             IF n \in h.own THEN Descriptor("C", n) ELSE InheritedOf(h).dict[n]])

\* C25: declaring a type gives it the fields where each name it declares
\* maps to its own descriptor and each name declared only on ancestors maps
\* to the descriptor of the closest ancestor declaring it; the inherited
\* search gives the ancestors' fields and leaves the type itself out.
C25_FieldsCollectedByMro ==
    /\ ppc = "declared" =>
          /\ pout.exc = "none"
          /\ pout.ret.class._declared_fields = ResolvedOf(pin)
    /\ ppc = "collected" => pout.ret = InheritedOf(pin)

---------------------------------------------------------------------------
(* error_store.merge_errors on objects: what it copies and what it shares *)

\* The arguments live in a heap, a function from object ids to dicts and
\* lists; a dict holds its messages as they are and its lists and dicts by
\* reference. The object of an argument at a path of keys has the id
\* <<1>> \o path or <<2>> \o path; the objects merge_errors creates have the
\* ids <<0>> \o path.
Ref(id) == [ref |-> id]
IsRef(e) == DOMAIN e = {"ref"}

RECURSIVE ObjectPaths(_, _)
ObjectPaths(v, p) ==
    IF IsDict(v)
    THEN {p} \cup UNION {ObjectPaths(v.dict[k], Append(p, k)) : k \in DOMAIN v.dict}
    ELSE IF IsList(v) THEN {p} ELSE {}

RECURSIVE SubValue(_, _)
SubValue(v, path) == IF path = <<>> THEN v ELSE SubValue(v.dict[Head(path)], Tail(path))

InHeap(v, p) == IF IsDict(v) \/ IsList(v) THEN Ref(p) ELSE v

\* the objects of the value v, rooted at the id <<root>>
HeapOf(v, root) ==
    [p \in ObjectPaths(v, <<root>>) |->
        LET o == SubValue(v, Tail(p)) IN
        IF IsDict(o) THEN Dict([k \in DOMAIN o.dict |-> InHeap(o.dict[k], Append(p, k))])
        ELSE o]

\* the value a reference stands for
RECURSIVE ValueAt(_, _)
ValueAt(heap, x) ==
    IF ~IsRef(x) THEN x
    ELSE IF IsDict(heap[x.ref])
    THEN Dict([k \in DOMAIN heap[x.ref].dict |-> ValueAt(heap, heap[x.ref].dict[k])])
    ELSE heap[x.ref]

\* dct[key] = value
SetEntry(heap, id, key, value) ==
    [heap EXCEPT ![id] = Dict([k \in (DOMAIN heap[id].dict) \cup {key} |->
                                  IF k = key THEN value ELSE heap[id].dict[k]])]

\* merged = errors1, with no copy
dict_alias(heap, id, newid) == [heap |-> heap, ret |-> id]

\* merged = errors1.copy()
dict_copy(heap, id, newid) == [heap |-> Alloc(heap, newid, heap[id]), ret |-> newid]

IsDictRef(heap, x) == IsRef(x) /\ IsDict(heap[x.ref])
IsListRef(heap, x) == IsRef(x) /\ IsList(heap[x.ref])

\* merge_errors(errors1, errors2), its new objects under the id q
RECURSIVE merge_errors_in(_, _, _, _)
RECURSIVE merge_items(_, _, _, _, _)
merge_errors_in(heap, e1, e2, q) ==
    IF IsDictRef(heap, e1) /\ IsDictRef(heap, e2) THEN
        LET c == dict_copy(heap, e1.ref, q) IN
        [heap |-> merge_items(c.heap, c.ret, e2.ref, DOMAIN heap[e2.ref].dict, q),
         ret |-> Ref(c.ret)]
    ELSE IF IsListRef(heap, e1) /\ IsListRef(heap, e2) THEN
        [heap |-> Alloc(heap, q, List(heap[e1.ref].list \o heap[e2.ref].list)),
         ret |-> Ref(q)]
    ELSE IF IsStr(e1) /\ IsStr(e2) THEN
        [heap |-> Alloc(heap, q, List(<<e1, e2>>)), ret |-> Ref(q)]
    ELSE
        [heap |-> heap, ret |-> e2]

\* for key, value in errors2.items(): ..., over the keys not yet visited
merge_items(heap, m, e2id, keys, q) ==
    IF keys = {} THEN heap
    ELSE
        LET key == CHOOSE k \in keys : TRUE
            value == heap[e2id].dict[key]
        IN  IF key \in DOMAIN heap[m].dict THEN
                LET r == merge_errors_in(heap, heap[m].dict[key], value, Append(q, key))
                IN  merge_items(SetEntry(r.heap, m, key, r.ret), m, e2id, keys \ {key}, q)
            ELSE
                merge_items(SetEntry(heap, m, key, value), m, e2id, keys \ {key}, q)

InitMergeFrame ==
    /\ OthersIdle
    /\ \E e1 \in ErrorValues, e2 \in ErrorValues :
          /\ pin = [errors1 |-> e1, errors2 |-> e2]
          /\ pout = [heap |-> HeapOf(e1, 1) @@ HeapOf(e2, 2),
                     errors1 |-> InHeap(e1, <<1>>), errors2 |-> InHeap(e2, <<2>>),
                     ret |-> None]
    /\ ppc = "idle"

\* merged = merge_errors(errors1, errors2)
MergeCall ==
    LET r == merge_errors_in(pout.heap, pout.errors1, pout.errors2, <<0>>) IN
    Returned("merged", "idle", [pout EXCEPT !.heap = r.heap, !.ret = r.ret])

\* merged["new"] = "z"
MutateResult ==
    /\ ppc = "merged" /\ IsDictRef(pout.heap, pout.ret)
    /\ Returned("mutated", "merged",
                [pout EXCEPT !.heap = SetEntry(pout.heap, pout.ret.ref, Str("new"), Str("z"))])

NextMergeFrame == MergeCall \/ MutateResult

SpecMergeFrame == InitMergeFrame /\ [][NextMergeFrame]_vars

\* C26: merge_errors leaves both arguments as they were, at every depth, and
\* setting a key of the returned top-level mapping afterwards leaves the
\* first argument as it was.
C26_MergeLeavesArguments ==
    /\ ppc = "merged" =>
          /\ ValueAt(pout.heap, pout.errors1) = pin.errors1
          /\ ValueAt(pout.heap, pout.errors2) = pin.errors2
    /\ ppc = "mutated" => ValueAt(pout.heap, pout.errors1) = pin.errors1

\* two trees sharing the key a were merged and the result was given a new key
C26_Witness ==
    /\ ppc = "mutated"
    /\ IsDict(pin.errors1) /\ IsDict(pin.errors2)
    /\ Str("a") \in (DOMAIN pin.errors1.dict) \cap (DOMAIN pin.errors2.dict)
    /\ Str("new") \in DOMAIN ValueAt(pout.heap, pout.ret).dict

Empties == {None, EmptyList, EmptyDict}

\* C27: merging an empty value (None, the empty list, the empty tree) with an
\* error value e, on either side, gives e.
C27_EmptyIsIdentity ==
    (mpc = "merged") =>
        /\ (errors1 \in Empties /\ errors2 \notin Empties) => merged = errors2
        /\ (errors2 \in Empties /\ errors1 \notin Empties) => merged = errors1

---------------------------------------------------------------------------
(* ErrorStore: what a store_error call leaves and adds *)

IsPrefix(s, t) == Len(s) <= Len(t) /\ SubSeq(t, 1, Len(s)) = s

\* C28: a store_error call for key k appends its error to the list of k,
\* after the errors k already had and in their order, and leaves the entry
\* of every other key as it was; no operation on the store removes a key or
\* removes or reorders an earlier error.
C28_StoreAppendOnly ==
    /\ \A j \in DOMAIN sbefore.dict :
          /\ j \in DOMAIN get_errors(store).dict
          /\ IsPrefix(sbefore.dict[j].list, get_errors(store).dict[j].list)
    /\ (sop.name = "store_error" /\ sexc = "none") =>
          LET k == sop.field_name
              errors == get_errors(store).dict
          IN  /\ DOMAIN errors = (DOMAIN sbefore.dict) \cup {k}
              /\ \A j \in (DOMAIN sbefore.dict) \ {k} : errors[j] = sbefore.dict[j]
              /\ errors[k].list =
                    Append(IF k \in DOMAIN sbefore.dict THEN sbefore.dict[k].list ELSE <<>>,
                           ValidationError_messages(sop.payload))

\* a second error was stored under a key while another key had an entry
C28_Witness ==
    /\ sop.name = "store_error" /\ sexc = "none"
    /\ sop.field_name \in DOMAIN sbefore.dict
    /\ \E j \in DOMAIN sbefore.dict : j # sop.field_name
    /\ Len(get_errors(store).dict[sop.field_name].list) = 2

---------------------------------------------------------------------------
(* utils.set_value, read back with utils.get_value *)

\* obj[key] = value: the exception, and obj after the statement
setitem(obj, key, value) ==
    IF IsDict(obj)
    THEN [exc |-> "none",
          obj |-> Dict([k \in (DOMAIN obj.dict) \cup {key} |->
                           IF k = key THEN value ELSE obj.dict[k]])]
    ELSE [exc |-> "TypeError", obj |-> obj]

\* the loop of set_value from dct on: dct = dct.setdefault(key, {}) for each
\* key but the last, then dct[keys[-1]] = value; gives the exception and dct
\* after it. Only a dict has setdefault.
RECURSIVE set_keys(_, _, _)
set_keys(dct, keys, value) ==
    IF Len(keys) = 1 THEN setitem(dct, keys[1], value)
    ELSE IF ~IsDict(dct) THEN [exc |-> "AttributeError", obj |-> dct]
    ELSE
        LET child == IF keys[1] \in DOMAIN dct.dict THEN dct.dict[keys[1]] ELSE EmptyDict
            r == set_keys(child, Tail(keys), value)
        IN  [exc |-> r.exc, obj |-> setitem(dct, keys[1], r.obj).obj]

\* set_value(dct, key, value)
set_value(dct, key, value) == set_keys(dct, split(key, "."), value)

KeyC == CStr(<<"c">>)
KeyABC == CStr(<<"a", ".", "b", ".", "c">>)
SetDicts ==
    {EmptyDict,
     Dict([k \in {KeyA} |-> PyInt(5)]),
     Dict([k \in {KeyB} |-> PyInt(5)]),
     Dict([k \in {KeyA} |-> Dict([j \in {KeyB} |-> PyInt(2)])]),
     Dict([k \in {KeyA} |-> Dict([j \in {KeyC} |-> PyInt(2)])]),
     Dict([k \in {KeyA} |-> Dict([j \in {KeyB} |-> Dict([l \in {KeyA} |-> PyInt(3)])])]),
     Dict([k \in {KeyA, KeyB} |->
              IF k = KeyA THEN Dict([j \in {KeyC} |-> PyInt(2)]) ELSE PyInt(4)]),
     Dict([k \in {KeyA} |-> List(<<PyInt(7)>>)]),
     Dict([k \in {KeyA} |-> None])}
SetKeys == {KeyA, KeyB, KeyAB, KeyABC}
SetValues == {PyInt(1), None, Dict([k \in {KeyB} |-> PyInt(2)])}

InitSetValue ==
    /\ OthersIdle
    /\ pin \in [d : SetDicts, key : SetKeys, value : SetValues]
    /\ pout = None /\ ppc = "idle"

\* set_value(d, key, value)
SetValue ==
    LET r == set_value(pin.d, pin.key, pin.value) IN
    Returned("set", "idle", [exc |-> r.exc, d |-> r.obj])

\* get_value(d, key)
GetBack ==
    /\ ppc = "set" /\ pout.exc = "none"
    /\ Returned("got", "set",
                [exc |-> "none", d |-> pout.d, got |-> get_value(pout.d, pin.key, missing)])

NextSetValue == SetValue \/ GetBack

SpecSetValue == InitSetValue /\ [][NextSetValue]_vars

\* new is old with at most the entry on the path of keys changed, at every
\* level of the path
RECURSIVE Frame(_, _, _)
Frame(old, new, keys) ==
    /\ IsDict(new)
    /\ DOMAIN new.dict = (DOMAIN old.dict) \cup {keys[1]}
    /\ \A k \in (DOMAIN old.dict) \ {keys[1]} : new.dict[k] = old.dict[k]
    /\ Len(keys) > 1 =>
          Frame(IF keys[1] \in DOMAIN old.dict /\ IsDict(old.dict[keys[1]])
                THEN old.dict[keys[1]] ELSE EmptyDict,
                new.dict[keys[1]], Tail(keys))

\* C30: for every dict d, key (plain or dotted) and value v, set_value(d,
\* key, v) succeeds, get_value(d, key) then returns v, and every entry of d
\* off the path of key, siblings inside existing intermediate dicts included,
\* is as it was.
C30_SetThenGetAgree ==
    /\ ppc \in {"set", "got"} => pout.exc = "none"
    /\ ppc = "got" =>
          /\ pout.got = [ret |-> pin.value, exc |-> "none"]
          /\ Frame(pin.d, pout.d, split(pin.key, "."))

=============================================================================
